---- MODULE Spec2Model ----
(***************************************************************************)
(* War Room weighted multi-agent consensus engine.                         *)
(*                                                                         *)
(* Units.  The source works on Python floats; the model keeps every        *)
(* quantity as an exact integer:                                           *)
(*   - a vote weight is in hundredths          (0.15 -> 15)                *)
(*   - a confidence is in percent              (0.87 -> 87)                *)
(*   - a score weight*confidence is therefore in 1/10000                   *)
(*   - a quotient of two scores is kept as the pair [num, den]             *)
(*   - volatility, drawdown, VaR and CVaR are in percent, beta and the     *)
(*     Sharpe ratio in hundredths, a CDS spread in basis points.           *)
(***************************************************************************)
EXTENDS Integers, Sequences, FiniteSets, TLC

VARIABLES
    pc,           \* position of the running operation
    votes,        \* run_debate's local list `votes` / the argument of _pm_arbitrate
    pm_decision,  \* the dict returned by _pm_arbitrate
    next_agent,   \* run_debate: index of the agent block that runs next
    status,       \* run_debate: what each agent's analyze call did so far
    arb_calls,    \* run_debate: number of _pm_arbitrate invocations so far
    arb_pending,  \* run_debate: agents still pending at each _pm_arbitrate invocation
    risk_ctx,     \* RiskAgent.analyze: the context argument
    risk_vote,    \* RiskAgent.analyze: the returned vote
    call,         \* a call of another agent's method: its name and arguments
    result,       \* what that call returned
    earlier,      \* the vote an earlier analyze call with the same arguments returned
    effects       \* the signals created and the broker orders sent, in order

vars == <<pc, votes, pm_decision, next_agent, status, arb_calls, arb_pending,
          risk_ctx, risk_vote, call, result, earlier, effects>>

-----------------------------------------------------------------------------
(* Bounds *)

MaxVotes == 3

-----------------------------------------------------------------------------
(* WarRoomEngine.__init__ : the weight table *)

vote_weights ==
    [trader        |-> 15,
     risk          |-> 15,
     analyst       |-> 12,
     macro         |-> 14,
     institutional |-> 14,
     news          |-> 14,
     chip_war      |-> 14,
     dividend_risk |-> 2,
     pm            |-> 0]

DefaultWeight == 10

\* Variant of Weight: an agent id missing from the table weighs nothing.
WeightDefaultsToZero(agent) ==
    IF agent \in DOMAIN vote_weights THEN vote_weights[agent] ELSE 0

\* self.vote_weights.get(agent, 0.1)
Weight(agent) ==
    IF agent \in DOMAIN vote_weights THEN vote_weights[agent] ELSE DefaultWeight

-----------------------------------------------------------------------------
(* WarRoomEngine._pm_arbitrate *)

\* The dict literal action_mapping.
action_mapping ==
    [BUY      |-> "BUY",
     SELL     |-> "SELL",
     HOLD     |-> "HOLD",
     MAINTAIN |-> "HOLD",
     REDUCE   |-> "SELL",
     INCREASE |-> "BUY",
     TRIM     |-> "SELL",
     ADD      |-> "BUY",
     DCA      |-> "BUY"]

\* Variant of Remap: a string missing from the mapping is passed through.
RemapPassesUnknown(raw_action) ==
    IF raw_action \in DOMAIN action_mapping THEN action_mapping[raw_action]
    ELSE raw_action

\* action_mapping.get(raw_action, "HOLD")
Remap(raw_action) ==
    IF raw_action \in DOMAIN action_mapping THEN action_mapping[raw_action]
    ELSE "HOLD"

\* The keys of action_scores in insertion order (the order max() iterates in).
ScoreKeys == <<"BUY", "SELL", "HOLD">>

Canonical == {"BUY", "SELL", "HOLD"}

ZeroScores == [BUY |-> 0, SELL |-> 0, HOLD |-> 0]

\* One iteration of `for vote in votes`.
Tally(scores, vote) ==
    [scores EXCEPT ![Remap(vote.action)] = @ + Weight(vote.agent) * vote.confidence]

\* The whole loop `for vote in votes`, left to right.
RECURSIVE TallyAll(_, _)
TallyAll(scores, vs) ==
    IF vs = <<>> THEN scores ELSE TallyAll(Tally(scores, Head(vs)), Tail(vs))

\* Variant of MaxKey: the last key whose value is maximal.
RECURSIVE MaxKeyLastWins(_, _, _)
MaxKeyLastWins(scores, best, i) ==
    IF i > Len(ScoreKeys) THEN best
    ELSE MaxKeyLastWins(scores,
                        IF scores[ScoreKeys[i]] >= scores[best] THEN ScoreKeys[i] ELSE best,
                        i + 1)

\* max(action_scores, key=action_scores.get): the first key, in iteration
\* order, whose value is maximal.
RECURSIVE MaxKey(_, _, _)
MaxKey(scores, best, i) ==
    IF i > Len(ScoreKeys) THEN best
    ELSE MaxKey(scores,
                IF scores[ScoreKeys[i]] > scores[best] THEN ScoreKeys[i] ELSE best,
                i + 1)

\* sum(action_scores.values())
TotalScore(scores) == scores["BUY"] + scores["SELL"] + scores["HOLD"]

\* The configured weights, each at full confidence, added up.
TableTotal ==
    LET RECURSIVE SumW(_)
        SumW(S) == IF S = {} THEN 0
                   ELSE LET a == CHOOSE x \in S : TRUE
                        IN vote_weights[a] * 100 + SumW(S \ {a})
    IN SumW(DOMAIN vote_weights)

\* Variant of ConsensusConfidence: the share of the whole weight table.
ConfidenceOverTable(scores, action) ==
    IF TotalScore(scores) > 0
    THEN [num |-> scores[action], den |-> TableTotal]
    ELSE [num |-> 1, den |-> 2]

\* action_scores[consensus_action] / total_score if total_score > 0 else 0.5
ConsensusConfidence(scores, action) ==
    IF TotalScore(scores) > 0
    THEN [num |-> scores[action], den |-> TotalScore(scores)]
    ELSE [num |-> 1, den |-> 2]

\* The returned dict.  "summary" is a formatted text; the model keeps which of
\* the two texts it is.
PmArbitrate(vs) ==
    IF vs = <<>>
    THEN [consensus_action     |-> "HOLD",
          consensus_confidence |-> [num |-> 1, den |-> 2],
          summary              |-> "no votes"]
    ELSE LET action_scores    == TallyAll(ZeroScores, vs)
             consensus_action == MaxKey(action_scores, ScoreKeys[1], 2)
         IN [consensus_action     |-> consensus_action,
             consensus_confidence |-> ConsensusConfidence(action_scores, consensus_action),
             summary              |-> "consensus",
             vote_distribution    |-> action_scores]

\* pm_decision before _pm_arbitrate has returned.
NoDecision == [summary |-> "not called"]

-----------------------------------------------------------------------------
(* Vote lists handed to _pm_arbitrate *)

V(a, x, c) == [agent |-> a, action |-> x, confidence |-> c]

\* The votes the lists are built from: every action string of the mapping and
\* one that is not in it, agents with equal and with different weights, the
\* agent of weight 0, an agent id that is not in the table, and the
\* confidence-0 vote ChipWarAgent returns for a non-semiconductor ticker.
VoteSamples ==
    {V("macro", "BUY", 100), V("macro", "SELL", 100), V("macro", "HOLD", 100),
     V("trader", "SELL", 80), V("analyst", "HOLD", 50),
     V("news", "MAINTAIN", 50), V("risk", "REDUCE", 60), V("institutional", "TRIM", 70),
     V("trader", "INCREASE", 40), V("analyst", "ADD", 100), V("dividend_risk", "DCA", 90),
     V("news", "STRONG_BUY", 100),
     V("pm", "BUY", 100), V("sentiment", "SELL", 100),
     V("chip_war", "HOLD", 0)}

VoteLists == UNION {[1..n -> VoteSamples] : n \in 0..MaxVotes}

Agents == {"risk", "macro", "institutional", "trader", "news", "analyst",
           "chip_war", "dividend_risk"}

IdleDebate ==
    /\ next_agent = 0
    /\ status = [a \in Agents |-> "pending"]
    /\ arb_calls = 0
    /\ arb_pending = {}

IdleRisk ==
    /\ risk_ctx = [has_data |-> FALSE]
    /\ risk_vote = [agent |-> "none"]

NoCall == [fn |-> "none"]

NoResult == [agent |-> "none"]

IdleEffects ==
    /\ earlier = NoResult
    /\ effects = <<>>

IdleCall ==
    /\ call = NoCall
    /\ result = NoResult
    /\ IdleEffects

InitArbiter ==
    /\ pc = "call"
    /\ votes \in VoteLists
    /\ pm_decision = NoDecision
    /\ IdleDebate
    /\ IdleRisk
    /\ IdleCall

\* A direct call _pm_arbitrate(votes).
CallPmArbitrate ==
    /\ pc = "call"
    /\ pm_decision' = PmArbitrate(votes)
    /\ pc' = "done"
    /\ UNCHANGED <<votes, next_agent, status, arb_calls, arb_pending, risk_ctx, risk_vote, call, result, earlier, effects>>

NextArbiter == CallPmArbitrate

SpecArbiter == InitArbiter /\ [][NextArbiter]_vars

-----------------------------------------------------------------------------
(* Properties of _pm_arbitrate *)

RECURSIVE SumOver(_, _)
SumOver(S, vs) ==
    IF S = {} THEN 0
    ELSE LET i == CHOOSE x \in S : TRUE
             w == IF vs[i].agent \in DOMAIN vote_weights
                  THEN vote_weights[vs[i].agent] ELSE 10
         IN w * vs[i].confidence + SumOver(S \ {i}, vs)

\* The score the contract defines for action a over the vote list vs.
ContractScore(vs, a) == SumOver({i \in 1..Len(vs) : Remap(vs[i].action) = a}, vs)

ContractTotal(vs) ==
    ContractScore(vs, "BUY") + ContractScore(vs, "SELL") + ContractScore(vs, "HOLD")

Returned == pc = "done" /\ "consensus_action" \in DOMAIN pm_decision

Priority(a) == CASE a = "BUY" -> 1 [] a = "SELL" -> 2 [] a = "HOLD" -> 3

\* a is a maximal-score action of vs and no action of higher priority ties with it.
IsPriorityArgmax(vs, a) ==
    /\ a \in Canonical
    /\ \A b \in Canonical : ContractScore(vs, b) <= ContractScore(vs, a)
    /\ \A b \in Canonical :
          ContractScore(vs, b) = ContractScore(vs, a) => Priority(a) <= Priority(b)

\* C2 as stated: for every vote list the consensus action has maximal score and
\* ties resolve by the priority BUY over SELL over HOLD.
C2_Original ==
    Returned => IsPriorityArgmax(votes, pm_decision.consensus_action)

\* C2 amended: the same for every non-empty vote list (the empty list returns
\* HOLD although all three scores tie at 0).
C2_ArgmaxNonEmpty ==
    (Returned /\ votes # <<>>) => IsPriorityArgmax(votes, pm_decision.consensus_action)

\* Three votes of equal weight * confidence split across BUY, SELL and HOLD.
C2_Witness ==
    /\ Returned
    /\ Len(votes) = 3
    /\ ContractScore(votes, "BUY") > 0
    /\ ContractScore(votes, "BUY") = ContractScore(votes, "SELL")
    /\ ContractScore(votes, "SELL") = ContractScore(votes, "HOLD")
    /\ pm_decision.consensus_action = "BUY"

\* C3: whenever the total score is 0 the result is HOLD at confidence 0.5.
C3_ZeroTotalIsHold ==
    (Returned /\ ContractTotal(votes) = 0) =>
        /\ pm_decision.consensus_action = "HOLD"
        /\ pm_decision.consensus_confidence.num * 2 = pm_decision.consensus_confidence.den

\* C4: a list of votes of configured agents with confidences in [0,1] and a
\* positive total score yields an action in {BUY, SELL, HOLD} and the confidence
\* score[action] / (sum of the scores of the votes present), within [0,1].
C4_ConfidenceIsShare ==
    (/\ Returned
     /\ \A i \in 1..Len(votes) :
           /\ votes[i].agent \in DOMAIN vote_weights
           /\ votes[i].confidence \in 0..100
     /\ ContractTotal(votes) > 0) =>
        LET c == pm_decision.consensus_confidence
            a == pm_decision.consensus_action
        IN /\ a \in Canonical
           /\ c.den > 0
           /\ c.num * ContractTotal(votes) = ContractScore(votes, a) * c.den
           /\ c.num = ContractScore(votes, a)
           /\ c.den = ContractTotal(votes)
           /\ 0 <= c.num /\ c.num <= c.den

\* Two of the configured domains only, disagreeing.
C4_Witness ==
    /\ Returned
    /\ Len(votes) = 2
    /\ votes[1].agent # votes[2].agent
    /\ \A i \in 1..2 : votes[i].agent \in DOMAIN vote_weights
    /\ ContractTotal(votes) > 0
    /\ pm_decision.consensus_confidence.num < pm_decision.consensus_confidence.den
    /\ pm_decision.consensus_confidence.num > 0

\* C5: the remapping of every vote's action follows the fixed table, sends
\* every other string to HOLD, lands in {BUY, SELL, HOLD} and is idempotent.
C5_RemapTable ==
    \A i \in 1..Len(votes) :
        LET x == votes[i].action
            expected ==
                CASE x \in {"BUY", "INCREASE", "ADD", "DCA"} -> "BUY"
                  [] x \in {"SELL", "REDUCE", "TRIM"} -> "SELL"
                  [] OTHER -> "HOLD"
        IN /\ Remap(x) = expected
           /\ Remap(x) \in Canonical
           /\ Remap(Remap(x)) = Remap(x)

C5_Witness ==
    /\ Returned
    /\ {votes[i].action : i \in 1..Len(votes)} = {"DCA", "TRIM", "STRONG_BUY"}
    /\ pm_decision.vote_distribution["HOLD"] > 0

\* C8: every result carries the action, the confidence and the per-action
\* score breakdown.
C8_CompleteResult ==
    pc = "done" =>
        /\ {"consensus_action", "consensus_confidence", "vote_distribution"}
              \subseteq DOMAIN pm_decision
        /\ pm_decision.consensus_action \in Canonical
        /\ DOMAIN pm_decision.vote_distribution = Canonical

-----------------------------------------------------------------------------
(* WarRoomEngine.run_debate *)

\* The eight try blocks of run_debate, in program order.
AgentOrder == <<"risk", "macro", "institutional", "trader", "news", "analyst",
                "chip_war", "dividend_risk">>

\* Votes an agent's analyze call returns when run_debate is called without a
\* context (war_room_router.py:617): a scenario of the agent's mock path or its
\* own fallback vote.
RiskVotes == {V("risk", "BUY", 87), V("risk", "SELL", 85), V("risk", "HOLD", 60)}

MacroVotes == {V("macro", "BUY", 84), V("macro", "HOLD", 60)}

InstitutionalVotes == {V("institutional", "BUY", 80), V("institutional", "HOLD", 50)}

TraderVotes == {V("trader", "SELL", 75), V("trader", "HOLD", 50)}

NewsVotes == {V("news", "SELL", 90), V("news", "HOLD", 50)}

AnalystVotes == {V("analyst", "BUY", 88), V("analyst", "HOLD", 55)}

ChipWarVotes == {V("chip_war", "HOLD", 0), V("chip_war", "HOLD", 30)}

DividendRiskVotes == {V("dividend_risk", "HOLD", 50)}

AgentVotes(a) ==
    CASE a = "risk"          -> RiskVotes
      [] a = "macro"         -> MacroVotes
      [] a = "institutional" -> InstitutionalVotes
      [] a = "trader"        -> TraderVotes
      [] a = "news"          -> NewsVotes
      [] a = "analyst"       -> AnalystVotes
      [] a = "chip_war"      -> ChipWarVotes
      [] a = "dividend_risk" -> DividendRiskVotes

\* Agents whose call can raise into run_debate: InstitutionalAgent.analyze has
\* no try block around the collector call, NewsAgent.analyze opens the session
\* before its try block and closes it in a finally, DividendRiskAgent is called
\* under a try block of run_debate.  The other agents catch every Exception
\* inside analyze and return their fallback vote.
MayRaise == {"institutional", "news", "dividend_risk"}

\* Variant of AfterBlock: the arbitration follows the last block but one.
AfterBlockSkipsLast(i) == IF i >= Len(AgentOrder) - 1 THEN "arbitrate" ELSE "agents"

\* Where run_debate continues after the try block of agent number i.
AfterBlock(i) == IF i = Len(AgentOrder) THEN "arbitrate" ELSE "agents"

Init ==
    /\ pc = "agents"
    /\ votes = <<>>
    /\ pm_decision = NoDecision
    /\ next_agent = 1
    /\ status = [a \in Agents |-> "pending"]
    /\ arb_calls = 0
    /\ arb_pending = {}
    /\ IdleRisk
    /\ IdleCall

\* try: vote = await agent.analyze(...); votes.append(vote)
AnalyzeReturns(i) ==
    /\ pc = "agents"
    /\ next_agent = i
    /\ \E v \in AgentVotes(AgentOrder[i]) : votes' = Append(votes, v)
    /\ status' = [status EXCEPT ![AgentOrder[i]] = "returned"]
    /\ next_agent' = i + 1
    /\ pc' = AfterBlock(i)
    /\ UNCHANGED <<pm_decision, arb_calls, arb_pending, risk_ctx, risk_vote, call, result, earlier, effects>>

\* except Exception as e: logger.error(...)
AnalyzeRaises(i) ==
    /\ pc = "agents"
    /\ next_agent = i
    /\ AgentOrder[i] \in MayRaise
    /\ status' = [status EXCEPT ![AgentOrder[i]] = "raised"]
    /\ next_agent' = i + 1
    /\ pc' = AfterBlock(i)
    /\ UNCHANGED <<votes, pm_decision, arb_calls, arb_pending, risk_ctx, risk_vote, call, result, earlier, effects>>

\* pm_decision = self._pm_arbitrate(votes); return votes, pm_decision
Arbitrate ==
    /\ pc = "arbitrate"
    /\ pm_decision' = PmArbitrate(votes)
    /\ arb_calls' = arb_calls + 1
    /\ arb_pending' = arb_pending \cup {a \in Agents : status[a] = "pending"}
    /\ pc' = "done"
    /\ UNCHANGED <<votes, next_agent, status, risk_ctx, risk_vote, call, result, earlier, effects>>

Next ==
    \/ \E i \in 1..Len(AgentOrder) : AnalyzeReturns(i)
    \/ \E i \in 1..Len(AgentOrder) : AnalyzeRaises(i)
    \/ Arbitrate

Spec == Init /\ [][Next]_vars

-----------------------------------------------------------------------------
(* Properties of run_debate *)

VotesOf(a) == {i \in 1..Len(votes) : votes[i].agent = a}

\* C6: the vote list handed to _pm_arbitrate holds exactly one vote for each
\* agent that was invoked, a fallback HOLD vote for an agent that raised.
C6_OneVotePerAgent ==
    arb_calls > 0 =>
        \A a \in Agents :
            /\ Cardinality(VotesOf(a)) = 1
            /\ status[a] = "raised" => \A i \in VotesOf(a) : votes[i].action = "HOLD"

\* C7: _pm_arbitrate runs at most once, exactly once in a finished run, and
\* only when no agent's analysis is still pending.
C7_ArbitrateOnceAfterAll ==
    /\ arb_calls <= 1
    /\ pc = "done" => arb_calls = 1
    /\ arb_pending = {}
    /\ arb_calls > 0 => \A a \in Agents : status[a] # "pending"
    /\ pc = "agents" => arb_calls = 0

\* A finished run in which agents returned and agents raised.
C7_Witness ==
    /\ pc = "done"
    /\ arb_calls = 1
    /\ \E a \in Agents : status[a] = "raised"
    /\ \E a \in Agents : status[a] = "returned"
    /\ "vote_distribution" \in DOMAIN pm_decision

-----------------------------------------------------------------------------
(* RiskAgent *)

Min(a, b) == IF a < b THEN a ELSE b

\* Variant of AnalyzeCdsPremium: a LOW spread leaves the confidence alone.
AnalyzeCdsPremiumFlatLow(cds_spread) ==
    IF cds_spread < 200
    THEN [credit_risk_level |-> IF cds_spread < 100 THEN "LOW" ELSE "MODERATE",
          confidence_modifier |-> 0]
    ELSE IF cds_spread < 500
    THEN [credit_risk_level |-> "HIGH", confidence_modifier |-> -15]
    ELSE [credit_risk_level |-> "CRITICAL", confidence_modifier |-> -25]

\* _analyze_cds_premium: the credit risk level and the confidence modifier of a
\* CDS spread in basis points.
AnalyzeCdsPremium(cds_spread) ==
    IF cds_spread < 100
    THEN [credit_risk_level |-> "LOW", confidence_modifier |-> 10]
    ELSE IF cds_spread < 200
    THEN [credit_risk_level |-> "MODERATE", confidence_modifier |-> 0]
    ELSE IF cds_spread < 500
    THEN [credit_risk_level |-> "HIGH", confidence_modifier |-> -15]
    ELSE [credit_risk_level |-> "CRITICAL", confidence_modifier |-> -25]

\* cds_analysis["credit_risk_level"], "NONE" when cds_analysis is None.
CdsLevel(d) ==
    IF d.has_cds THEN AnalyzeCdsPremium(d.cds_spread).credit_risk_level ELSE "NONE"

\* Variant of CdsSuppresses: only HIGH suppresses the later blocks.
CdsSuppressesOnlyHigh(d) == CdsLevel(d) = "HIGH"

\* The negation of the guard
\*   cds_analysis is None or cds_analysis["credit_risk_level"] not in ["CRITICAL", "HIGH"]
\* of the Sharpe, VaR and risk-based blocks.
CdsSuppresses(d) == CdsLevel(d) \in {"CRITICAL", "HIGH"}

\* The locals action, confidence and confidence_boost before the first block.
RiskStart == [action |-> "HOLD", confidence |-> 50, boost |-> 0]

\* if cds_spread is not None: ...
CdsBlock(s, d) ==
    IF ~d.has_cds THEN s
    ELSE IF CdsLevel(d) = "CRITICAL"
    THEN [s EXCEPT !.action = "SELL", !.confidence = 90]
    ELSE IF CdsLevel(d) = "HIGH"
    THEN IF s.action # "SELL"
         THEN [s EXCEPT !.action = "SELL", !.confidence = 80]
         ELSE s
    ELSE [s EXCEPT !.boost = @ + AnalyzeCdsPremium(d.cds_spread).confidence_modifier]

\* sharpe_ratio is set (not None) when `returns and len(returns) >= 20`.
HasSharpe(d) == d.returns.n >= 20

\* if returns and len(returns) >= 20: ...
SharpeBlock(s, d) ==
    IF ~HasSharpe(d) \/ CdsSuppresses(d) THEN s
    ELSE IF d.returns.sharpe < 50
    THEN IF s.action # "SELL"
         THEN [s EXCEPT !.action = "SELL", !.confidence = 85]
         ELSE s
    ELSE IF d.returns.sharpe > 150
    THEN [s EXCEPT !.boost = @ + 15]
    ELSE s

\* if returns and len(returns) >= 30: ...
VarBlock(s, d) ==
    IF d.returns.n < 30 \/ CdsSuppresses(d) THEN s
    ELSE IF d.returns.var_1day < -5
    THEN IF s.action # "SELL"
         THEN [s EXCEPT !.action = "SELL", !.confidence = 88]
         ELSE s
    ELSE IF d.returns.cvar < -10
    THEN [s EXCEPT !.boost = @ - 10]
    ELSE IF d.returns.var_1day > -2
    THEN [s EXCEPT !.boost = @ + 5]
    ELSE s

\* Risk-based decision logic.
RiskBlock(s, d) ==
    IF CdsSuppresses(d) THEN s
    ELSE IF d.volatility > 40 \/ d.max_drawdown < -10
    THEN [s EXCEPT !.action = "SELL", !.confidence = 85]
    ELSE IF d.volatility > 30 /\ d.beta > 150
    THEN [s EXCEPT !.action = "HOLD", !.confidence = 75]
    ELSE IF d.volatility < 20 /\ d.max_drawdown > -5
    THEN [s EXCEPT !.action = "BUY",
                   !.confidence = IF HasSharpe(d) /\ d.returns.sharpe > 150
                                  THEN Min(95, 87 + 10) ELSE 87]
    ELSE [s EXCEPT !.confidence = 65,
                   !.boost = IF HasSharpe(d) /\ d.returns.sharpe > 100 THEN @ + 10 ELSE @]

\* The locals action, confidence and confidence_boost of
\* _analyze_with_real_data after its four blocks, in program order.
RiskCascade(d) == RiskBlock(VarBlock(SharpeBlock(CdsBlock(RiskStart, d), d), d), d)

\* _analyze_with_real_data: the four blocks in program order, then
\* confidence = min(0.95, confidence + confidence_boost).
RiskAnalyzeWithRealData(d) ==
    LET s == RiskCascade(d)
    IN [agent |-> "risk", action |-> s.action,
        confidence |-> Min(95, s.confidence + s.boost)]

\* _analyze_mock: random.choice(scenarios)
RiskMockScenarios ==
    {[agent |-> "risk", action |-> "BUY", confidence |-> 87],
     [agent |-> "risk", action |-> "SELL", confidence |-> 85],
     [agent |-> "risk", action |-> "HOLD", confidence |-> 75]}

\* _fallback_response
RiskFallbackResponse == [agent |-> "risk", action |-> "HOLD", confidence |-> 60]

\* What _calculate_sharpe_ratio and _calculate_var return for a list of n daily
\* returns: nothing is computed below 20 (Sharpe) and 30 (VaR) observations;
\* CVaR is the mean of the returns at or below VaR.
ReturnStats ==
    {[n |-> 0, sharpe |-> 0, var_1day |-> 0, cvar |-> 0]}
    \cup {[n |-> 20, sharpe |-> sh, var_1day |-> 0, cvar |-> 0] : sh \in {30, 120, 200}}
    \cup {[n |-> 30, sharpe |-> sh, var_1day |-> t[1], cvar |-> t[2]] :
            sh \in {30, 120, 200}, t \in {<<-6, -8>>, <<-3, -12>>, <<-3, -4>>, <<-1, -1>>}}

\* risk_data: `numeric` is FALSE when volatility is not a number, which makes
\* the formatting of risk_factors raise on every path.
RiskBundles ==
    [volatility   : {15, 20, 35, 45},
     beta         : {100, 160},
     max_drawdown : {-12, -7, 0},
     returns      : ReturnStats,
     has_cds      : {TRUE},
     cds_spread   : {50, 150, 300, 500, 600},
     numeric      : BOOLEAN]
    \cup
    [volatility   : {15, 20, 35, 45},
     beta         : {100, 160},
     max_drawdown : {-12, -7, 0},
     returns      : ReturnStats,
     has_cds      : {FALSE},
     cds_spread   : {0},
     numeric      : BOOLEAN]

RiskContexts ==
    {[has_data |-> FALSE]} \cup {[has_data |-> TRUE, risk_data |-> d] : d \in RiskBundles}

InitRisk ==
    /\ pc = "call"
    /\ risk_ctx \in RiskContexts
    /\ risk_vote = [agent |-> "none"]
    /\ votes = <<>>
    /\ pm_decision = NoDecision
    /\ IdleDebate
    /\ IdleCall

\* analyze: context and "risk_data" in context, the computation returns.
RiskAnalyzeReal ==
    /\ pc = "call"
    /\ risk_ctx.has_data
    /\ risk_ctx.risk_data.numeric
    /\ risk_vote' = RiskAnalyzeWithRealData(risk_ctx.risk_data)
    /\ pc' = "done"
    /\ UNCHANGED <<votes, pm_decision, next_agent, status, arb_calls, arb_pending, risk_ctx,
                 call, result, earlier, effects>>

\* analyze: the computation raises, except Exception returns the fallback.
RiskAnalyzeFallback ==
    /\ pc = "call"
    /\ risk_ctx.has_data
    /\ ~risk_ctx.risk_data.numeric
    /\ risk_vote' = RiskFallbackResponse
    /\ pc' = "done"
    /\ UNCHANGED <<votes, pm_decision, next_agent, status, arb_calls, arb_pending, risk_ctx,
                 call, result, earlier, effects>>

\* analyze: no context or no "risk_data" key.
RiskAnalyzeMock ==
    /\ pc = "call"
    /\ ~risk_ctx.has_data
    /\ risk_vote' \in RiskMockScenarios
    /\ pc' = "done"
    /\ UNCHANGED <<votes, pm_decision, next_agent, status, arb_calls, arb_pending, risk_ctx,
                 call, result, earlier, effects>>

NextRisk == RiskAnalyzeReal \/ RiskAnalyzeFallback \/ RiskAnalyzeMock

SpecRisk == InitRisk /\ [][NextRisk]_vars

-----------------------------------------------------------------------------
(* Properties of RiskAgent *)

\* C10: for every numeric risk bundle whose cds_spread is >= 500 the vote is
\* SELL, whatever the volatility, drawdown, beta and returns are.
C10_CriticalCdsSells ==
    (/\ pc = "done"
     /\ risk_ctx.has_data
     /\ risk_ctx.risk_data.numeric
     /\ risk_ctx.risk_data.has_cds
     /\ risk_ctx.risk_data.cds_spread >= 500) => risk_vote.action = "SELL"

\* A critical CDS spread in a bundle that is low-risk in every other respect.
C10_Witness ==
    /\ pc = "done"
    /\ risk_ctx.has_data
    /\ risk_ctx.risk_data.numeric
    /\ risk_ctx.risk_data.has_cds
    /\ risk_ctx.risk_data.cds_spread = 600
    /\ risk_ctx.risk_data.volatility < 20
    /\ risk_ctx.risk_data.max_drawdown > -5
    /\ risk_ctx.risk_data.returns.n >= 30
    /\ risk_ctx.risk_data.returns.sharpe > 150
    /\ risk_ctx.risk_data.returns.var_1day > -2
    /\ risk_vote.action = "SELL"
    /\ risk_vote.confidence = 90

\* The same bundle without the cds_spread key.
WithoutCds(d) == [d EXCEPT !.has_cds = FALSE, !.cds_spread = 0]

RiskRealDone ==
    /\ pc = "done"
    /\ risk_ctx.has_data
    /\ risk_ctx.risk_data.numeric

\* C11: for every numeric risk bundle whose cds_spread is below 200 (LOW or
\* MODERATE) the vote's action is the action voted for the same bundle without
\* cds_spread, and the confidence is that bundle's confidence before the cap
\* plus 0.10 (LOW, below 100) or plus 0.00 (MODERATE), capped at 0.95.
C11_LowCdsKeepsAction ==
    (/\ RiskRealDone
     /\ risk_ctx.risk_data.has_cds
     /\ risk_ctx.risk_data.cds_spread < 200) =>
        LET d  == risk_ctx.risk_data
            s0 == RiskCascade(WithoutCds(d))
            m  == IF d.cds_spread < 100 THEN 10 ELSE 0
        IN /\ risk_vote.action = s0.action
           /\ risk_vote.confidence = Min(95, s0.confidence + s0.boost + m)

\* A LOW spread on a bundle voted HOLD at 0.65 without it: HOLD at 0.75.
C11_Witness ==
    /\ RiskRealDone
    /\ risk_ctx.risk_data.has_cds
    /\ risk_ctx.risk_data.cds_spread = 50
    /\ RiskAnalyzeWithRealData(WithoutCds(risk_ctx.risk_data)).action = "HOLD"
    /\ RiskAnalyzeWithRealData(WithoutCds(risk_ctx.risk_data)).confidence = 65
    /\ risk_vote.action = "HOLD"
    /\ risk_vote.confidence = 75

-----------------------------------------------------------------------------
(* MacroAgent.  Yields are in hundredths of a percent (4.5 -> 450, so a    *)
(* difference of yields is in basis points), CPI, GDP growth and           *)
(* unemployment in tenths of a percent, oil in dollars, the dollar index   *)
(* in points and 30-day changes in percent.  An optional key of macro_data *)
(* is <<>> when absent and <<v>> when present.                             *)

Max(a, b) == IF a > b THEN a ELSE b

\* macro_data.get(key, default)
Get(f, default) == IF f = <<>> THEN default ELSE f[1]

\* _get_sector: SECTOR_MAP.get(ticker, "Unknown")
SECTOR_MAP ==
    [XOM |-> "Energy", CVX |-> "Energy", COP |-> "Energy", SLB |-> "Energy",
     XLE |-> "Energy",
     AAL |-> "Airlines", DAL |-> "Airlines", UAL |-> "Airlines", LUV |-> "Airlines",
     JETS |-> "Airlines",
     UPS |-> "Transportation", FDX |-> "Transportation",
     AAPL |-> "Technology", MSFT |-> "Technology", GOOGL |-> "Technology",
     META |-> "Technology", NVDA |-> "Technology", AMD |-> "Technology",
     WMT |-> "Consumer", TGT |-> "Consumer", COST |-> "Consumer",
     JPM |-> "Financials", BAC |-> "Financials", WFC |-> "Financials",
     GLD |-> "Gold", GDX |-> "Gold", GOLD |-> "Gold"]

GetSector(ticker) ==
    IF ticker \in DOMAIN SECTOR_MAP THEN SECTOR_MAP[ticker] ELSE "Unknown"

EXPORTERS == {"AAPL", "MSFT", "GOOGL", "NVDA", "AMD", "INTC", "BA", "CAT", "DE"}

IsUsExporter(ticker) == ticker \in EXPORTERS

MULTINATIONALS ==
    {"AAPL", "MSFT", "GOOGL", "META", "AMZN", "NVDA", "AMD", "INTC",
     "KO", "PEP", "MCD", "SBUX", "JNJ", "PFE", "UNH"}

IsMultinational(ticker) == ticker \in MULTINATIONALS

\* Variant of AnalyzeYieldCurve: a spread of exactly 25 bps is FLATTENING.
AnalyzeYieldCurveClosedBand(yield_2y, yield_10y) ==
    LET spread_bps == yield_10y - yield_2y
    IN [spread_bps |-> spread_bps,
        signal |-> IF spread_bps < 0 THEN "INVERTED"
                   ELSE IF spread_bps <= 25 THEN "FLATTENING"
                   ELSE IF spread_bps < 150 THEN "NORMAL"
                   ELSE "STEEP"]

\* _analyze_yield_curve
AnalyzeYieldCurve(yield_2y, yield_10y) ==
    LET spread_bps == yield_10y - yield_2y
    IN [spread_bps |-> spread_bps,
        signal |-> IF spread_bps < 0 THEN "INVERTED"
                   ELSE IF spread_bps < 25 THEN "FLATTENING"
                   ELSE IF spread_bps < 150 THEN "NORMAL"
                   ELSE "STEEP"]

\* _analyze_oil_price: the signal
OilSignal(wti_price) ==
    IF wti_price > 90 THEN "HIGH" ELSE IF wti_price < 60 THEN "LOW" ELSE "NORMAL"

\* _analyze_dollar_index: the signal
DollarSignal(dxy) ==
    IF dxy > 105 THEN "STRONG" ELSE IF dxy < 95 THEN "WEAK" ELSE "NEUTRAL"

\* yc_analysis["signal"], "NONE" when yc_analysis is None.
YcSignal(d) ==
    IF d.yield_curve = <<>> THEN "NONE"
    ELSE AnalyzeYieldCurve(d.yield_curve[1].y2, d.yield_curve[1].y10).signal

MacroStart == [action |-> "HOLD", confidence |-> 50, boost |-> 0]

\* Yield Curve Analysis (if available) - checked first.
YieldCurveBlock(s, d) ==
    IF YcSignal(d) = "INVERTED"
    THEN [s EXCEPT !.action = "SELL", !.confidence = 85]
    ELSE IF YcSignal(d) = "STEEP" THEN [s EXCEPT !.boost = @ + 15]
    ELSE IF YcSignal(d) = "FLATTENING" THEN [s EXCEPT !.boost = @ - 10]
    ELSE s

\* if not yield_curve_inverted: the Fed / GDP / CPI / unemployment rules, then
\* the first application of the yield-curve boost.
RegimeBlock(s, d) ==
    IF YcSignal(d) = "INVERTED" THEN s
    ELSE LET fed_direction == Get(d.fed_direction, "HOLDING")
             cpi_yoy       == Get(d.cpi_yoy, 30)
             gdp_growth    == Get(d.gdp_growth, 20)
             unemployment  == Get(d.unemployment, 40)
             r == IF fed_direction = "CUTTING" /\ cpi_yoy < 30
                  THEN [s EXCEPT !.action = "BUY", !.confidence = 84]
                  ELSE IF gdp_growth > 25 /\ unemployment < 40 /\ cpi_yoy < 35
                  THEN [s EXCEPT !.action = "BUY", !.confidence = 78]
                  ELSE IF fed_direction = "HIKING" /\ cpi_yoy > 45
                  THEN [s EXCEPT !.action = "SELL", !.confidence = 76]
                  ELSE IF gdp_growth < 10 \/ unemployment > 50
                  THEN [s EXCEPT !.action = "SELL", !.confidence = 72]
                  ELSE [s EXCEPT !.confidence = 65]
         IN IF YcSignal(d) \in {"STEEP", "FLATTENING"}
            THEN [r EXCEPT !.confidence = Min(95, r.confidence + r.boost)]
            ELSE r

\* Oil Price Analysis (if available): binds ticker_sector.
OilBlock(s, ticker, d) ==
    IF d.wti_crude = <<>> THEN s
    ELSE LET signal == OilSignal(d.wti_crude[1])
             ticker_sector == GetSector(ticker)
             wti_change_30d == Get(d.wti_change_30d, 0)
             sector_adj ==
                 IF signal = "HIGH"
                 THEN IF ticker_sector = "Energy" THEN 10
                      ELSE IF ticker_sector \in {"Airlines", "Transportation"} THEN -8
                      ELSE 0
                 ELSE IF signal = "LOW"
                 THEN IF ticker_sector = "Energy" THEN -8
                      ELSE IF ticker_sector \in {"Airlines", "Transportation", "Consumer"}
                      THEN 8
                      ELSE 0
                 ELSE 0
             move_adj == IF wti_change_30d > 20 \/ wti_change_30d < -20 THEN -5 ELSE 0
         IN [s EXCEPT !.boost = @ + sector_adj + move_adj]

\* The dollar block reads ticker_sector, a local that only the oil block
\* assigns: the read raises when wti_crude is absent.
DollarBlockRaises(ticker, d) ==
    /\ d.dxy # <<>>
    /\ DollarSignal(d.dxy[1]) \in {"STRONG", "WEAK"}
    /\ ~(IsUsExporter(ticker) \/ IsMultinational(ticker))
    /\ d.wti_crude = <<>>

\* Dollar Index Analysis (if available), when it does not raise.
DollarBlock(s, ticker, d) ==
    IF d.dxy = <<>> THEN s
    ELSE LET signal == DollarSignal(d.dxy[1])
             ticker_sector == GetSector(ticker)
             dxy_change_30d == Get(d.dxy_change_30d, 0)
             exposure_adj ==
                 IF signal = "STRONG"
                 THEN IF IsUsExporter(ticker) \/ IsMultinational(ticker) THEN -10
                      ELSE IF ticker_sector = "Gold" THEN -8
                      ELSE 0
                 ELSE IF signal = "WEAK"
                 THEN IF IsUsExporter(ticker) \/ IsMultinational(ticker) THEN 10
                      ELSE IF ticker_sector = "Gold" THEN 8
                      ELSE 0
                 ELSE 0
             move_adj == IF dxy_change_30d > 5 \/ dxy_change_30d < -5 THEN -5 ELSE 0
         IN [s EXCEPT !.boost = @ + exposure_adj + move_adj]

\* MacroAgent._analyze_with_real_data, on inputs where it returns.
MacroAnalyzeWithRealData(ticker, d) ==
    LET s == DollarBlock(OilBlock(RegimeBlock(YieldCurveBlock(MacroStart, d), d),
                                  ticker, d), ticker, d)
    IN [agent |-> "macro", action |-> s.action,
        confidence |-> IF s.boost # 0
                       THEN Min(95, Max(40, s.confidence + s.boost))
                       ELSE s.confidence]

\* _analyze_mock: random.choice(scenarios)
MacroMockScenarios ==
    {[agent |-> "macro", action |-> "BUY", confidence |-> 84],
     [agent |-> "macro", action |-> "SELL", confidence |-> 74],
     [agent |-> "macro", action |-> "HOLD", confidence |-> 68]}

\* _fallback_response
MacroFallbackResponse == [agent |-> "macro", action |-> "HOLD", confidence |-> 60]

MacroTickers == {"XOM", "DAL", "WMT", "AAPL", "GLD", "JPM", "KO"}

YieldCurves ==
    {<<>>, <<[y2 |-> 450, y10 |-> 420]>>, <<[y2 |-> 300, y10 |-> 480]>>,
     <<[y2 |-> 400, y10 |-> 410]>>, <<[y2 |-> 400, y10 |-> 500]>>}

\* (wti_crude, wti_change_30d) and (dxy, dxy_change_30d) as given together.
OilReadings ==
    {<<<<>>, <<>>>>, <<<<50>>, <<>>>>, <<<<78>>, <<25>>>>, <<<<95>>, <<>>>>, <<<<95>>, <<-25>>>>}

DollarReadings ==
    {<<<<>>, <<>>>>, <<<<90>>, <<>>>>, <<<<100>>, <<6>>>>, <<<<106>>, <<>>>>, <<<<106>>, <<-6>>>>}

MacroBundles ==
    {[fed_direction |-> f, cpi_yoy |-> c, gdp_growth |-> g, unemployment |-> u,
      yield_curve |-> y, wti_crude |-> o[1], wti_change_30d |-> o[2],
      dxy |-> x[1], dxy_change_30d |-> x[2]] :
        f \in {<<>>, <<"CUTTING">>, <<"HIKING">>},
        c \in {<<>>, <<25>>, <<50>>},
        g \in {<<>>, <<5>>, <<30>>},
        u \in {<<>>, <<35>>, <<55>>},
        y \in YieldCurves, o \in OilReadings, x \in DollarReadings}

MacroAnalyzeCalls ==
    {[fn |-> "MacroAgent.analyze", ticker |-> t, has_data |-> FALSE] : t \in {"AAPL"}}
    \cup {[fn |-> "MacroAgent.analyze", ticker |-> t, has_data |-> TRUE, macro_data |-> d] :
            t \in MacroTickers, d \in MacroBundles}

Yields == {300, 400, 410, 420, 425, 450, 480, 549, 550, 575}

YieldCurveCalls ==
    {[fn |-> "_analyze_yield_curve", yield_2y |-> a, yield_10y |-> b] :
        a \in Yields, b \in Yields}

\* The variables of the debate, the arbiter and the risk agent.
other_vars == <<votes, pm_decision, next_agent, status, arb_calls, arb_pending,
                risk_ctx, risk_vote, earlier, effects>>

IdleOthers ==
    /\ votes = <<>>
    /\ pm_decision = NoDecision
    /\ IdleDebate
    /\ IdleRisk
    /\ IdleEffects

InitMacro ==
    /\ pc = "call"
    /\ call \in MacroAnalyzeCalls \cup YieldCurveCalls
    /\ result = NoResult
    /\ IdleOthers

\* analyze: "macro_data" in context and the computation returns.
MacroAnalyzeReal ==
    /\ pc = "call"
    /\ call.fn = "MacroAgent.analyze"
    /\ call.has_data
    /\ ~DollarBlockRaises(call.ticker, call.macro_data)
    /\ result' = MacroAnalyzeWithRealData(call.ticker, call.macro_data)
    /\ pc' = "done"
    /\ UNCHANGED <<call, other_vars>>

\* analyze: the computation raises, except Exception returns the fallback.
MacroAnalyzeFallback ==
    /\ pc = "call"
    /\ call.fn = "MacroAgent.analyze"
    /\ call.has_data
    /\ DollarBlockRaises(call.ticker, call.macro_data)
    /\ result' = MacroFallbackResponse
    /\ pc' = "done"
    /\ UNCHANGED <<call, other_vars>>

\* analyze: no context or no "macro_data" key.
MacroAnalyzeMock ==
    /\ pc = "call"
    /\ call.fn = "MacroAgent.analyze"
    /\ ~call.has_data
    /\ result' \in MacroMockScenarios
    /\ pc' = "done"
    /\ UNCHANGED <<call, other_vars>>

\* A direct call of _analyze_yield_curve.
CallAnalyzeYieldCurve ==
    /\ pc = "call"
    /\ call.fn = "_analyze_yield_curve"
    /\ result' = AnalyzeYieldCurve(call.yield_2y, call.yield_10y)
    /\ pc' = "done"
    /\ UNCHANGED <<call, other_vars>>

NextMacro ==
    MacroAnalyzeReal \/ MacroAnalyzeFallback \/ MacroAnalyzeMock \/ CallAnalyzeYieldCurve

SpecMacro == InitMacro /\ [][NextMacro]_vars

-----------------------------------------------------------------------------
(* Properties of MacroAgent *)

MacroDone == pc = "done" /\ call.fn = "MacroAgent.analyze"

\* C12: for every macro bundle whose yield curve is inverted (10y below 2y)
\* analyze returns SELL, for every ticker and every combination of the oil,
\* dollar, Fed, GDP, CPI and unemployment fields, present or absent.
C12_InvertedCurveSells ==
    (/\ MacroDone
     /\ call.has_data
     /\ call.macro_data.yield_curve # <<>>
     /\ call.macro_data.yield_curve[1].y10 < call.macro_data.yield_curve[1].y2)
        => result.action = "SELL"

-----------------------------------------------------------------------------
(* AnalystAgent.  pe_ratio is in tenths (25.5 -> 255), earnings_growth,    *)
(* revenue_growth and profit_margin in tenths of a percent (0.18 -> 180),  *)
(* debt_to_equity in hundredths.  With these units PEG = pe / growth% is   *)
(* the quotient pe_ratio / earnings_growth, kept as the pair [num, den].   *)

\* _calculate_peg_ratio: earnings_growth_pct = rate * 100; below 1 the
\* sentinel 999.0, otherwise pe_ratio / earnings_growth_pct and its band.
CalculatePegRatio(pe_ratio, earnings_growth_rate) ==
    IF earnings_growth_rate < 10
    THEN [peg_ratio |-> [num |-> 999, den |-> 1], valuation |-> "N/A"]
    ELSE [peg_ratio |-> [num |-> pe_ratio, den |-> earnings_growth_rate],
          valuation |->
              IF 2 * pe_ratio < earnings_growth_rate THEN "EXTREMELY_UNDERVALUED"
              ELSE IF pe_ratio < earnings_growth_rate THEN "UNDERVALUED"
              ELSE IF 2 * pe_ratio < 3 * earnings_growth_rate THEN "FAIR"
              ELSE IF pe_ratio < 2 * earnings_growth_rate THEN "SLIGHTLY_OVERVALUED"
              ELSE "OVERVALUED"]

\* _compare_with_peers: SECTOR_MAP.get(ticker, {"sector": "Unknown"})
PeerSector(ticker) ==
    IF ticker \in {"AAPL", "MSFT", "GOOGL"} THEN "Technology"
    ELSE IF ticker = "TSLA" THEN "Automotive"
    ELSE IF ticker = "JPM" THEN "Financials"
    ELSE IF ticker = "JNJ" THEN "Healthcare"
    ELSE "Unknown"

\* SECTOR_BENCHMARKS.get(sector, SECTOR_BENCHMARKS["DEFAULT"]), in the units
\* of the bundle.
SectorBenchmark(sector) ==
    IF sector = "Technology" THEN [avg_pe |-> 285, avg_growth |-> 150, avg_margin |-> 250]
    ELSE IF sector = "Financials" THEN [avg_pe |-> 120, avg_growth |-> 80, avg_margin |-> 200]
    ELSE IF sector = "Healthcare" THEN [avg_pe |-> 180, avg_growth |-> 120, avg_margin |-> 180]
    ELSE IF sector = "Automotive" THEN [avg_pe |-> 150, avg_growth |-> 100, avg_margin |-> 80]
    ELSE [avg_pe |-> 200, avg_growth |-> 100, avg_margin |-> 150]

\* _compare_with_peers: competitive_position
CompetitivePosition(ticker, d) ==
    LET benchmark      == SectorBenchmark(PeerSector(ticker))
        pe_ratio       == Get(d.pe_ratio, 200)
        revenue_growth == Get(d.revenue_growth, 100)
        profit_margin  == Get(d.profit_margin, 150)
        pe_score == IF 100 * pe_ratio < 85 * benchmark.avg_pe THEN 1
                    ELSE IF 100 * pe_ratio > 115 * benchmark.avg_pe THEN -1 ELSE 0
        growth_score == IF 10 * revenue_growth > 13 * benchmark.avg_growth THEN 1
                        ELSE IF 10 * revenue_growth < 7 * benchmark.avg_growth THEN -1
                        ELSE 0
        margin_score == IF 10 * profit_margin > 12 * benchmark.avg_margin THEN 1
                        ELSE IF 10 * profit_margin < 8 * benchmark.avg_margin THEN -1
                        ELSE 0
        score == pe_score + growth_score + margin_score
    IN IF score >= 2 THEN "LEADER" ELSE IF score >= 0 THEN "COMPETITIVE" ELSE "LAGGING"

\* peg_analysis is not None: earnings_growth > 0.01
HasPeg(d) == Get(d.earnings_growth, 100) > 10

AnalystStart == [action |-> "HOLD", confidence |-> 50, boost |-> 0]

\* PEG Ratio-based signals.
PegBlock(s, d) ==
    IF ~HasPeg(d) THEN s
    ELSE LET peg == CalculatePegRatio(Get(d.pe_ratio, 200), Get(d.earnings_growth, 100)).peg_ratio
         IN IF 2 * peg.num < peg.den
            THEN [s EXCEPT !.action = "BUY", !.confidence = 90]
            ELSE IF peg.num < peg.den THEN [s EXCEPT !.boost = @ + 20]
            ELSE IF peg.num > 2 * peg.den THEN [s EXCEPT !.boost = @ - 15]
            ELSE s

\* Traditional fundamental analysis, skipped when PEG < 0.5.
FundamentalsBlock(s, d) ==
    LET pe_ratio        == Get(d.pe_ratio, 200)
        earnings_growth == Get(d.earnings_growth, 100)
        profit_margin   == Get(d.profit_margin, 150)
        debt_to_equity  == Get(d.debt_to_equity, 50)
        peg == CalculatePegRatio(pe_ratio, earnings_growth).peg_ratio
    IN IF HasPeg(d) /\ 2 * peg.num < peg.den THEN s
       ELSE LET r == IF earnings_growth > 150 /\ pe_ratio < 250 /\ profit_margin > 200
                     THEN [s EXCEPT !.action = "BUY", !.confidence = 88]
                     ELSE IF earnings_growth > 100 /\ debt_to_equity < 40
                     THEN [s EXCEPT !.action = "BUY", !.confidence = 80]
                     ELSE IF earnings_growth < -50 \/ profit_margin < 50
                     THEN [s EXCEPT !.action = "SELL", !.confidence = 78]
                     ELSE IF pe_ratio > 400 /\ earnings_growth < 100
                     THEN [s EXCEPT !.action = "SELL", !.confidence = 72]
                     ELSE [s EXCEPT !.confidence = 65]
            IN IF HasPeg(d) /\ peg.num < peg.den /\ r.action = "BUY"
               THEN [r EXCEPT !.confidence = Min(95, r.confidence + r.boost)]
               ELSE IF HasPeg(d) /\ peg.num > 2 * peg.den
               THEN [r EXCEPT !.confidence = Max(50, r.confidence + r.boost)]
               ELSE r

\* Peer comparison: the adjustments to confidence_boost made here are never
\* applied to confidence.
PeerBlock(s, ticker, d) ==
    LET position == CompetitivePosition(ticker, d)
    IN IF position = "LEADER"
       THEN IF s.action = "BUY" THEN [s EXCEPT !.boost = @ + 15]
            ELSE IF s.action = "HOLD" THEN [s EXCEPT !.action = "BUY", !.confidence = 75]
            ELSE s
       ELSE IF position = "LAGGING"
       THEN IF s.action = "SELL" THEN [s EXCEPT !.boost = @ + 10]
            ELSE IF s.action = "BUY" THEN [s EXCEPT !.boost = @ - 15]
            ELSE s
       ELSE s

\* The LAGGING branch subscripts peg_analysis, which is None when
\* earnings_growth <= 0.01; a non-numeric earnings_growth makes the first
\* comparison raise.
AnalystRaises(ticker, d) ==
    \/ ~d.numeric
    \/ CompetitivePosition(ticker, d) = "LAGGING" /\ ~HasPeg(d)

\* AnalystAgent._analyze_with_real_data, on inputs where it returns.
AnalystAnalyzeWithRealData(ticker, d) ==
    LET s == PeerBlock(FundamentalsBlock(PegBlock(AnalystStart, d), d), ticker, d)
    IN [agent |-> "analyst", action |-> s.action, confidence |-> s.confidence]

\* _analyze_mock: random.choice(scenarios)
AnalystMockScenarios ==
    {[agent |-> "analyst", action |-> "BUY", confidence |-> 88],
     [agent |-> "analyst", action |-> "SELL", confidence |-> 80],
     [agent |-> "analyst", action |-> "HOLD", confidence |-> 70]}

\* _fallback_response
AnalystFallbackResponse == [agent |-> "analyst", action |-> "HOLD", confidence |-> 55]

AnalystBundles ==
    [pe_ratio        : {<<>>, <<100>>, <<240>>, <<450>>, <<600>>},
     earnings_growth : {<<>>, <<-80>>, <<5>>, <<10>>, <<120>>, <<200>>, <<400>>},
     revenue_growth  : {<<>>, <<20>>, <<250>>},
     profit_margin   : {<<>>, <<30>>, <<320>>},
     debt_to_equity  : {<<>>, <<30>>},
     numeric         : BOOLEAN]

AnalystAnalyzeCalls ==
    {[fn |-> "AnalystAgent.analyze", ticker |-> "AAPL", has_data |-> FALSE]}
    \cup {[fn |-> "AnalystAgent.analyze", ticker |-> t, has_data |-> TRUE,
           fundamental_data |-> d] : t \in {"AAPL", "JPM", "XYZ"}, d \in AnalystBundles}

\* analyze: "fundamental_data" in context and the computation returns.
AnalystAnalyzeReal ==
    /\ pc = "call"
    /\ call.fn = "AnalystAgent.analyze"
    /\ call.has_data
    /\ ~AnalystRaises(call.ticker, call.fundamental_data)
    /\ result' = AnalystAnalyzeWithRealData(call.ticker, call.fundamental_data)
    /\ pc' = "done"
    /\ UNCHANGED <<call, other_vars>>

\* analyze: the computation raises, except Exception returns the fallback.
AnalystAnalyzeFallback ==
    /\ pc = "call"
    /\ call.fn = "AnalystAgent.analyze"
    /\ call.has_data
    /\ AnalystRaises(call.ticker, call.fundamental_data)
    /\ result' = AnalystFallbackResponse
    /\ pc' = "done"
    /\ UNCHANGED <<call, other_vars>>

\* analyze: no context or no "fundamental_data" key.
AnalystAnalyzeMock ==
    /\ pc = "call"
    /\ call.fn = "AnalystAgent.analyze"
    /\ ~call.has_data
    /\ result' \in AnalystMockScenarios
    /\ pc' = "done"
    /\ UNCHANGED <<call, other_vars>>

NextAnalyst == AnalystAnalyzeReal \/ AnalystAnalyzeFallback \/ AnalystAnalyzeMock

-----------------------------------------------------------------------------
(* TraderAgent.  volume_change is in hundredths (1.5 -> 150), alignment    *)
(* scores in hundredths, distances and band widths in percent.  What the   *)
(* helpers compute from the OHLCV lists (the three trends, the nearest     *)
(* support and resistance) is an input of the model.                       *)

Count(trends, t) == Cardinality({i \in 1..3 : trends[i] = t})

\* _calculate_alignment_score
CalculateAlignmentScore(daily_trend, weekly_trend, monthly_trend) ==
    LET trends == <<daily_trend, weekly_trend, monthly_trend>>
        uptrend_count   == Count(trends, "UPTREND")
        downtrend_count == Count(trends, "DOWNTREND")
        sideways_count  == Count(trends, "SIDEWAYS")
    IN IF sideways_count = 3 THEN 50
       ELSE IF uptrend_count = 3 \/ downtrend_count = 3 THEN 100
       ELSE IF uptrend_count = 2 \/ downtrend_count = 2
       THEN IF sideways_count = 1 THEN 75 ELSE 66
       ELSE IF uptrend_count = 1 /\ downtrend_count = 1 THEN 33
       ELSE IF sideways_count = 2 THEN 50
       ELSE 0

\* _analyze_bollinger_bands: the signal for a price and bands upper/middle/lower.
BollingerSignal(current_price, bands) ==
    LET width_lt_5  == bands.middle > 0 /\ 100 * (bands.upper - bands.lower) < 5 * bands.middle
        width_gt_15 == bands.middle > 0 /\ 100 * (bands.upper - bands.lower) > 15 * bands.middle
    IN IF current_price < bands.lower THEN "OVERSOLD"
       ELSE IF current_price >= bands.upper THEN "OVERBOUGHT"
       ELSE IF bands.middle <= 0 \/ width_lt_5 THEN "SQUEEZE"
       ELSE IF width_gt_15 THEN "EXPANSION"
       ELSE "NEUTRAL"

TraderStart == [action |-> "HOLD", confidence |-> 50, boost |-> 0]

\* BUY / SELL / HOLD signals from the moving averages, RSI and volume.
TraderSignalBlock(s, d) ==
    IF d.ma20 > d.ma50 /\ d.rsi < 50 /\ d.volume_change > 130
    THEN [s EXCEPT !.action = "BUY",
                   !.confidence = Min(90, 70 + (d.volume_change - 100) \div 5)]
    ELSE IF d.rsi < 30 /\ d.volume_change > 120
    THEN [s EXCEPT !.action = "BUY", !.confidence = 85]
    ELSE IF d.ma20 < d.ma50 /\ d.rsi > 70
    THEN [s EXCEPT !.action = "SELL", !.confidence = 80]
    ELSE IF d.rsi > 75 /\ d.volume_change < 80
    THEN [s EXCEPT !.action = "SELL", !.confidence = 75]
    ELSE [s EXCEPT !.confidence = 60]

\* Multi-Timeframe Alignment Boost/Penalty.
MtfBlock(s, d) ==
    IF d.mtf = <<>> THEN s
    ELSE LET t == d.mtf[1]
             alignment_score == CalculateAlignmentScore(t[1], t[2], t[3])
             b == IF alignment_score >= 80 THEN 20
                  ELSE IF alignment_score >= 60 THEN 10
                  ELSE IF alignment_score <= 30 THEN -30
                  ELSE 0
             r == [s EXCEPT !.boost = @ + b]
         IN IF r.action = "HOLD" /\ t = <<"UPTREND", "UPTREND", "UPTREND">>
            THEN [r EXCEPT !.action = "BUY", !.confidence = 75]
            ELSE IF r.action = "HOLD" /\ t = <<"DOWNTREND", "DOWNTREND", "DOWNTREND">>
            THEN [r EXCEPT !.action = "SELL", !.confidence = 75]
            ELSE r

\* Support/Resistance Boost: three consecutive ifs.  A distance of 0 stands
\* for None (no level on that side).
SrBlock(s, d) ==
    IF d.sr = <<>> THEN s
    ELSE LET sr == d.sr[1]
             s1 == IF s.action \in {"BUY", "HOLD"} /\ sr.support_distance_pct # 0
                      /\ sr.support_distance_pct < 2
                   THEN [s EXCEPT !.boost = @ + 15] ELSE s
             s2 == IF s1.action = "BUY" /\ sr.breakout
                   THEN [s1 EXCEPT !.boost = @ + 20] ELSE s1
         IN IF s2.action \in {"SELL", "HOLD"} /\ sr.resistance_distance_pct # 0
               /\ sr.resistance_distance_pct < 2
            THEN IF s2.action = "HOLD"
                 THEN [s2 EXCEPT !.action = "SELL", !.confidence = 65]
                 ELSE [s2 EXCEPT !.boost = @ + 10]
            ELSE s2

\* Bollinger Bands Signal Integration.
BbBlock(s, d) ==
    IF d.bollinger_bands = <<>> THEN s
    ELSE LET bb_signal == BollingerSignal(d.price, d.bollinger_bands[1])
         IN IF bb_signal = "OVERSOLD" /\ s.action \in {"BUY", "HOLD"}
            THEN IF s.action = "HOLD"
                 THEN [s EXCEPT !.action = "BUY", !.confidence = 75]
                 ELSE [s EXCEPT !.boost = @ + 15]
            ELSE IF bb_signal = "OVERBOUGHT" /\ s.action \in {"SELL", "HOLD"}
            THEN IF s.action = "HOLD"
                 THEN [s EXCEPT !.action = "SELL", !.confidence = 70]
                 ELSE [s EXCEPT !.boost = @ + 10]
            ELSE IF bb_signal = "SQUEEZE" /\ s.action \in {"BUY", "SELL"}
            THEN [s EXCEPT !.boost = @ - 10]
            ELSE IF bb_signal = "EXPANSION" /\ s.action \in {"BUY", "SELL"}
            THEN [s EXCEPT !.boost = @ + 10]
            ELSE s

\* Variant of TraderAnalyzeWithRealData: no final cap on the confidence.
TraderAnalyzeUncapped(d) ==
    LET s == BbBlock(SrBlock(MtfBlock(TraderSignalBlock(TraderStart, d), d), d), d)
    IN [agent |-> "trader", action |-> s.action, confidence |-> s.confidence + s.boost]

\* TraderAgent._analyze_with_real_data
TraderAnalyzeWithRealData(d) ==
    LET s == BbBlock(SrBlock(MtfBlock(TraderSignalBlock(TraderStart, d), d), d), d)
    IN [agent |-> "trader", action |-> s.action,
        confidence |-> Min(95, s.confidence + s.boost)]

\* _analyze_mock: random.choice(scenarios)
TraderMockScenarios ==
    {[agent |-> "trader", action |-> "BUY", confidence |-> 85],
     [agent |-> "trader", action |-> "SELL", confidence |-> 75],
     [agent |-> "trader", action |-> "HOLD", confidence |-> 60],
     [agent |-> "trader", action |-> "BUY", confidence |-> 90]}

\* _fallback_response
TraderFallbackResponse == [agent |-> "trader", action |-> "HOLD", confidence |-> 50]

TrendTriples ==
    {<<"UPTREND", "UPTREND", "UPTREND">>, <<"DOWNTREND", "DOWNTREND", "DOWNTREND">>,
     <<"UPTREND", "UPTREND", "SIDEWAYS">>, <<"UPTREND", "DOWNTREND", "SIDEWAYS">>,
     <<"SIDEWAYS", "SIDEWAYS", "SIDEWAYS">>}

SrReadings ==
    {[support_distance_pct |-> a, resistance_distance_pct |-> b[1], breakout |-> b[2]] :
        a \in {0, 1}, b \in {<<0, FALSE>>, <<1, FALSE>>, <<1, TRUE>>, <<5, TRUE>>}}

BollingerReadings ==
    {[upper |-> 205, middle |-> 195, lower |-> 185],
     [upper |-> 197, middle |-> 195, lower |-> 193],
     [upper |-> 220, middle |-> 195, lower |-> 170]}

\* technical_data; `numeric` is FALSE when volume_change is not a number,
\* which makes the formatting of technical_factors raise on every path.
TraderBundles ==
    [ma20 : {185, 190, 195}, ma50 : {190}, rsi : {25, 45, 72, 80},
     volume_change : {70, 125, 150, 250}, price : {165, 195, 225},
     mtf : {<<>>} \cup {<<t>> : t \in TrendTriples},
     sr : {<<>>} \cup {<<r>> : r \in SrReadings},
     bollinger_bands : {<<>>} \cup {<<b>> : b \in BollingerReadings},
     numeric : {TRUE}]
    \cup
    [ma20 : {185, 190, 195}, ma50 : {190}, rsi : {25, 45, 72, 80},
     volume_change : {70, 125, 150, 250}, price : {195},
     mtf : {<<>>}, sr : {<<>>}, bollinger_bands : {<<>>},
     numeric : {FALSE}]

TraderAnalyzeCalls ==
    {[fn |-> "TraderAgent.analyze", has_data |-> FALSE]}
    \cup {[fn |-> "TraderAgent.analyze", has_data |-> TRUE, technical_data |-> d] :
            d \in TraderBundles}

\* analyze: "technical_data" in context and the computation returns.
TraderAnalyzeReal ==
    /\ pc = "call"
    /\ call.fn = "TraderAgent.analyze"
    /\ call.has_data
    /\ call.technical_data.numeric
    /\ result' = TraderAnalyzeWithRealData(call.technical_data)
    /\ pc' = "done"
    /\ UNCHANGED <<call, other_vars>>

\* analyze: the computation raises, except Exception returns the fallback.
TraderAnalyzeFallback ==
    /\ pc = "call"
    /\ call.fn = "TraderAgent.analyze"
    /\ call.has_data
    /\ ~call.technical_data.numeric
    /\ result' = TraderFallbackResponse
    /\ pc' = "done"
    /\ UNCHANGED <<call, other_vars>>

\* analyze: no context or no "technical_data" key.
TraderAnalyzeMock ==
    /\ pc = "call"
    /\ call.fn = "TraderAgent.analyze"
    /\ ~call.has_data
    /\ result' \in TraderMockScenarios
    /\ pc' = "done"
    /\ UNCHANGED <<call, other_vars>>

NextTrader == TraderAnalyzeReal \/ TraderAnalyzeFallback \/ TraderAnalyzeMock

-----------------------------------------------------------------------------
(* SentimentAgent.  twitter_sentiment, reddit_sentiment and                *)
(* sentiment_change_24h are in hundredths, bullish_ratio in percent; the   *)
(* weighted overall sentiment 0.6 * twitter + 0.4 * reddit is therefore in *)
(* thousandths.                                                            *)

\* _analyze_fear_greed: the signal
FearGreedSignal(index) ==
    IF index < 25 THEN "CONTRARIAN_BUY"
    ELSE IF index < 76 THEN "NEUTRAL"
    ELSE "CONTRARIAN_SELL"

OverallSentiment(d) == 6 * d.twitter_sentiment + 4 * d.reddit_sentiment

IsTrending(d) == d.trending_rank <= 20

HighVolume(d) == d.twitter_volume > 10000 \/ d.reddit_mentions > 500

SentimentStart == [action |-> "HOLD", confidence |-> 50, boost |-> 0]

\* 4. the BUY / SELL / HOLD cases
SentimentSignalBlock(s, d) ==
    LET overall_sentiment == OverallSentiment(d)
    IN IF overall_sentiment > 600 /\ HighVolume(d)
       THEN [s EXCEPT !.action = "BUY",
                      !.confidence = Min(85, 70 + (overall_sentiment - 600) \div 20)]
       ELSE IF d.fear_greed_index < 25 /\ overall_sentiment > 0
       THEN [s EXCEPT !.action = "BUY", !.confidence = 78]
       ELSE IF IsTrending(d) /\ d.sentiment_change_24h > 30
       THEN [s EXCEPT !.action = "BUY", !.confidence = 75]
       ELSE IF overall_sentiment < -500
       THEN [s EXCEPT !.action = "SELL", !.confidence = 80]
       ELSE IF d.fear_greed_index > 85 /\ d.bullish_ratio > 90
       THEN [s EXCEPT !.action = "SELL", !.confidence = 82]
       ELSE IF d.sentiment_change_24h < -40
       THEN [s EXCEPT !.action = "SELL", !.confidence = 75]
       ELSE [s EXCEPT !.confidence = 60]

\* 5. Fear & Greed integration
FearGreedBlock(s, d) ==
    IF FearGreedSignal(d.fear_greed_index) = "CONTRARIAN_BUY"
    THEN IF s.action = "HOLD" THEN [s EXCEPT !.action = "BUY", !.confidence = 72]
         ELSE IF s.action = "BUY" THEN [s EXCEPT !.boost = @ + 10]
         ELSE s
    ELSE IF FearGreedSignal(d.fear_greed_index) = "CONTRARIAN_SELL"
    THEN IF s.action = "HOLD" THEN [s EXCEPT !.action = "SELL", !.confidence = 70]
         ELSE IF s.action = "SELL" THEN [s EXCEPT !.boost = @ + 10]
         ELSE s
    ELSE s

\* 6. Trending boost and 7. low-volume penalty
VolumeBlock(s, d) ==
    LET s1 == IF IsTrending(d) /\ s.action = "BUY" THEN [s EXCEPT !.boost = @ + 5] ELSE s
    IN IF ~HighVolume(d) /\ s1.action \in {"BUY", "SELL"}
       THEN [s1 EXCEPT !.boost = @ - 10] ELSE s1

\* SentimentAgent._analyze_with_real_data
SentimentAnalyzeWithRealData(d) ==
    LET s == VolumeBlock(FearGreedBlock(SentimentSignalBlock(SentimentStart, d), d), d)
    IN [agent |-> "sentiment", action |-> s.action,
        confidence |-> Min(90, Max(40, s.confidence + s.boost))]

\* _analyze_mock: random.choice(scenarios)
SentimentMockScenarios ==
    {[agent |-> "sentiment", action |-> "BUY", confidence |-> 75],
     [agent |-> "sentiment", action |-> "SELL", confidence |-> 80],
     [agent |-> "sentiment", action |-> "HOLD", confidence |-> 60]}

\* _fallback_response
SentimentFallbackResponse == [agent |-> "sentiment", action |-> "HOLD", confidence |-> 50]

\* social_data; `numeric` is FALSE when twitter_sentiment is not a number,
\* which makes the weighted average raise.
SentimentBundles ==
    [twitter_sentiment : {-80, 0, 30, 80, 100}, reddit_sentiment : {-80, 50, 100},
     twitter_volume : {5000, 15000}, reddit_mentions : {100},
     fear_greed_index : {10, 50, 80, 90}, trending_rank : {5, 100},
     sentiment_change_24h : {-50, 0, 40}, bullish_ratio : {50, 95},
     numeric : BOOLEAN]

SentimentAnalyzeCalls ==
    {[fn |-> "SentimentAgent.analyze", has_data |-> FALSE]}
    \cup {[fn |-> "SentimentAgent.analyze", has_data |-> TRUE, social_data |-> d] :
            d \in SentimentBundles}

\* analyze: "social_data" in context and the computation returns.
SentimentAnalyzeReal ==
    /\ pc = "call"
    /\ call.fn = "SentimentAgent.analyze"
    /\ call.has_data
    /\ call.social_data.numeric
    /\ result' = SentimentAnalyzeWithRealData(call.social_data)
    /\ pc' = "done"
    /\ UNCHANGED <<call, other_vars>>

\* analyze: the computation raises, except Exception returns the fallback.
SentimentAnalyzeFallback ==
    /\ pc = "call"
    /\ call.fn = "SentimentAgent.analyze"
    /\ call.has_data
    /\ ~call.social_data.numeric
    /\ result' = SentimentFallbackResponse
    /\ pc' = "done"
    /\ UNCHANGED <<call, other_vars>>

\* analyze: no context or no "social_data" key.
SentimentAnalyzeMock ==
    /\ pc = "call"
    /\ call.fn = "SentimentAgent.analyze"
    /\ ~call.has_data
    /\ result' \in SentimentMockScenarios
    /\ pc' = "done"
    /\ UNCHANGED <<call, other_vars>>

NextSentiment == SentimentAnalyzeReal \/ SentimentAnalyzeFallback \/ SentimentAnalyzeMock

-----------------------------------------------------------------------------
(* NewsAgent.  A news summary is [type, text]: text is the set of keywords *)
(* that occur (as substrings, case-insensitively) in the field the         *)
(* detector reads, `content` for an EMERGENCY item and `title` otherwise.  *)
(* The sentiment score is in hundredths.                                   *)

MaxNews == 4

\* The English entries of litigation_keywords and regulatory_keywords.
litigation_keywords == {"lawsuit", "litigation", "sued", "settlement", "class action"}

regulatory_keywords ==
    {"sec", "ftc", "doj", "antitrust", "investigation", "probe",
     "fine", "penalty", "violation", "compliance"}

\* for news in news_summaries: for keyword in keywords: if keyword in content:
\* count += 1; break
RECURSIVE CountMatching(_, _)
CountMatching(news_summaries, keywords) ==
    IF news_summaries = <<>> THEN 0
    ELSE (IF Head(news_summaries).text \cap keywords # {} THEN 1 ELSE 0)
         + CountMatching(Tail(news_summaries), keywords)

\* _detect_regulatory_litigation
DetectRegulatoryLitigation(news_summaries) ==
    LET litigation_count == CountMatching(news_summaries, litigation_keywords)
        regulatory_count == CountMatching(news_summaries, regulatory_keywords)
        total_issues == litigation_count + regulatory_count
    IN [has_risk |-> total_issues # 0,
        litigation_count |-> litigation_count,
        regulatory_count |-> regulatory_count,
        severity |-> IF total_issues = 0 THEN "NONE"
                     ELSE IF total_issues >= 5 \/ litigation_count >= 3 THEN "CRITICAL"
                     ELSE IF total_issues >= 3 \/ litigation_count >= 2 THEN "HIGH"
                     ELSE IF total_issues >= 2 THEN "MODERATE"
                     ELSE "LOW"]

Abs(x) == IF x < 0 THEN -x ELSE x

\* regulatory_penalty
RegulatoryPenalty(regulatory_analysis) ==
    IF ~regulatory_analysis.has_risk THEN 0
    ELSE IF regulatory_analysis.severity = "CRITICAL" THEN -50
    ELSE IF regulatory_analysis.severity = "HIGH" THEN -30
    ELSE IF regulatory_analysis.severity = "MODERATE" THEN -20
    ELSE -10

\* _decide_action(sentiment_result, emergency_count, news_count,
\* trend_analysis, regulatory_analysis)
DecideAction(score, emergency_count, trend, regulatory_analysis) ==
    LET urgency_boost == IF emergency_count > 0 THEN 20 ELSE 0
        trend_boost == IF trend = "IMPROVING" THEN 10
                       ELSE IF trend = "DETERIORATING" THEN -10 ELSE 0
        force_sell == regulatory_analysis.has_risk
                      /\ regulatory_analysis.severity = "CRITICAL"
        adjusted_score == score + trend_boost + RegulatoryPenalty(regulatory_analysis)
    IN IF force_sell THEN [action |-> "SELL", confidence |-> 90]
       ELSE IF adjusted_score > 60
       THEN [action |-> "BUY", confidence |-> Min(95, Abs(adjusted_score) + urgency_boost)]
       ELSE IF adjusted_score < -60
       THEN [action |-> "SELL", confidence |-> Min(95, Abs(adjusted_score) + urgency_boost)]
       ELSE [action |-> "HOLD", confidence |-> 50 + (3 * Abs(adjusted_score)) \div 10]

NoRegulatoryRisk ==
    [has_risk |-> FALSE, litigation_count |-> 0, regulatory_count |-> 0, severity |-> "NONE"]

EmergencyCount(news_summaries) ==
    Cardinality({i \in 1..Len(news_summaries) : news_summaries[i].type = "EMERGENCY"})

\* NewsAgent.analyze, inside the try block, for what the database returned.
NewsAnalyzeBody(news_summaries, score, trend) ==
    IF news_summaries = <<>>
    THEN [agent |-> "news", action |-> "HOLD", confidence |-> 50]
    ELSE LET decision == DecideAction(score, EmergencyCount(news_summaries), trend,
                                      DetectRegulatoryLitigation(news_summaries))
         IN [agent |-> "news", action |-> decision.action,
             confidence |-> decision.confidence]

\* except Exception: the neutral vote
NewsErrorVote == [agent |-> "news", action |-> "HOLD", confidence |-> 50]

NewsItems ==
    {[type |-> "REGULAR", text |-> t] :
        t \in {{}, {"lawsuit"}, {"sec"}, {"lawsuit", "sec"}, {"lawsuit", "settlement"}}}
    \cup {[type |-> "EMERGENCY", text |-> {"sued", "probe"}]}

NewsLists(n) == UNION {[1..k -> NewsItems] : k \in 0..n}

\* Sentiment scores at which the float sums of _decide_action fall on the
\* same side of +-0.6 as the exact sums.
Scores == {-100, -90, -70, -60, 0, 50, 60, 70}

Trends == {"NONE", "IMPROVING", "DETERIORATING", "STABLE"}

RegulatoryAnalyses ==
    {NoRegulatoryRisk}
    \cup {[has_risk |-> TRUE, litigation_count |-> r[1], regulatory_count |-> r[2],
           severity |-> r[3]] :
            r \in {<<1, 0, "LOW">>, <<1, 1, "MODERATE">>, <<2, 0, "HIGH">>,
                   <<0, 3, "HIGH">>, <<3, 0, "CRITICAL">>, <<2, 3, "CRITICAL">>}}

DetectCalls ==
    {[fn |-> "_detect_regulatory_litigation", news_summaries |-> l] : l \in NewsLists(MaxNews)}

DecideCalls ==
    {[fn |-> "_decide_action", score |-> sc, emergency_count |-> e, trend |-> t,
      regulatory_analysis |-> r] :
        sc \in Scores, e \in {0, 2}, t \in Trends, r \in RegulatoryAnalyses}

NewsAnalyzeCalls ==
    {[fn |-> "NewsAgent.analyze", news_summaries |-> l, score |-> sc, trend |-> t,
      query_fails |-> f] :
        l \in NewsLists(2), sc \in {-70, 0, 70}, t \in {"STABLE", "IMPROVING"},
        f \in BOOLEAN}

\* analyze: the try block returns.
NewsAnalyzeReturns ==
    /\ pc = "call"
    /\ call.fn = "NewsAgent.analyze"
    /\ ~call.query_fails
    /\ result' = NewsAnalyzeBody(call.news_summaries, call.score, call.trend)
    /\ pc' = "done"
    /\ UNCHANGED <<call, other_vars>>

\* analyze: a statement of the try block raises.
NewsAnalyzeFallback ==
    /\ pc = "call"
    /\ call.fn = "NewsAgent.analyze"
    /\ call.query_fails
    /\ result' = NewsErrorVote
    /\ pc' = "done"
    /\ UNCHANGED <<call, other_vars>>

\* A direct call of _detect_regulatory_litigation.
CallDetectRegulatoryLitigation ==
    /\ pc = "call"
    /\ call.fn = "_detect_regulatory_litigation"
    /\ result' = DetectRegulatoryLitigation(call.news_summaries)
    /\ pc' = "done"
    /\ UNCHANGED <<call, other_vars>>

\* A direct call of _decide_action.
CallDecideAction ==
    /\ pc = "call"
    /\ call.fn = "_decide_action"
    /\ result' = DecideAction(call.score, call.emergency_count, call.trend,
                              call.regulatory_analysis)
    /\ pc' = "done"
    /\ UNCHANGED <<call, other_vars>>

NextNews == NewsAnalyzeReturns \/ NewsAnalyzeFallback

-----------------------------------------------------------------------------
(* ChipWarAgent.  disruption_score is in points; the verdict and the score *)
(* come from the simulator's report and are inputs of the model.           *)

chip_tickers == {"NVDA", "GOOGL", "GOOG", "AVGO", "META", "AMD", "INTC", "TSM", "ASML", "ARM"}

ChipVote(action, confidence) ==
    [agent |-> "chip_war", action |-> action, confidence |-> confidence]

\* _vote_for_nvidia
VoteForNvidia(verdict, disruption_score) ==
    IF verdict = "THREAT" THEN ChipVote("SELL", Min(75, disruption_score - 100))
    ELSE IF verdict = "MONITORING" THEN ChipVote("HOLD", 60)
    ELSE ChipVote("BUY", Min(85, 100 - disruption_score \div 2))

\* _vote_for_google
VoteForGoogle(verdict, disruption_score) ==
    IF verdict = "THREAT" THEN ChipVote("BUY", Min(80, (5 * (disruption_score - 100)) \div 6))
    ELSE IF verdict = "MONITORING" THEN ChipVote("HOLD", 55)
    ELSE ChipVote("SELL", 65)

\* _vote_for_meta
VoteForMeta(verdict, disruption_score) ==
    IF verdict = "THREAT" THEN ChipVote("BUY", 65)
    ELSE IF verdict = "MONITORING" THEN ChipVote("HOLD", 50)
    ELSE ChipVote("HOLD", 40)

\* _vote_for_broadcom
VoteForBroadcom(verdict, disruption_score) ==
    IF verdict = "THREAT" THEN ChipVote("BUY", 70) ELSE ChipVote("HOLD", 50)

\* _vote_for_other_chips
VoteForOtherChips(verdict, disruption_score) ==
    IF verdict = "THREAT" THEN ChipVote("BUY", 60) ELSE ChipVote("HOLD", 45)

\* _vote_for_infrastructure
VoteForInfrastructure(verdict, disruption_score) ==
    IF verdict = "THREAT" THEN ChipVote("BUY", 65) ELSE ChipVote("HOLD", 55)

\* _generate_vote_for_ticker
GenerateVoteForTicker(ticker, report) ==
    IF ticker = "NVDA" THEN VoteForNvidia(report.verdict, report.disruption_score)
    ELSE IF ticker \in {"GOOGL", "GOOG"}
    THEN VoteForGoogle(report.verdict, report.disruption_score)
    ELSE IF ticker = "META" THEN VoteForMeta(report.verdict, report.disruption_score)
    ELSE IF ticker = "AVGO" THEN VoteForBroadcom(report.verdict, report.disruption_score)
    ELSE IF ticker \in {"AMD", "INTC"}
    THEN VoteForOtherChips(report.verdict, report.disruption_score)
    ELSE VoteForInfrastructure(report.verdict, report.disruption_score)

\* analyze: ticker not in self.chip_tickers
ChipWarSkippedVote == ChipVote("HOLD", 0)

\* analyze: except Exception
ChipWarErrorVote == ChipVote("HOLD", 30)

\* The disruption scores are those at which every confidence is a whole
\* number of hundredths.
ChipReports ==
    [verdict : {"THREAT", "MONITORING", "SAFE"},
     disruption_score : {10, 40, 100, 160, 220, 280}]

\* analyze for the tickers that go through the V1 simulator and
\* _generate_vote_for_ticker, and for tickers outside chip_tickers.
ChipWarAnalyzeCalls ==
    {[fn |-> "ChipWarAgent.analyze", ticker |-> t, report |-> r, simulator_fails |-> f] :
        t \in (chip_tickers \ {"NVDA", "GOOGL", "GOOG"}) \cup {"AAPL", "XOM"},
        r \in ChipReports, f \in BOOLEAN}

VoteForTickerCalls ==
    {[fn |-> "_generate_vote_for_ticker", ticker |-> t, report |-> r] :
        t \in chip_tickers, r \in ChipReports}

\* analyze: a ticker that is not semiconductor-related.
ChipWarAnalyzeSkips ==
    /\ pc = "call"
    /\ call.fn = "ChipWarAgent.analyze"
    /\ call.ticker \notin chip_tickers
    /\ result' = ChipWarSkippedVote
    /\ pc' = "done"
    /\ UNCHANGED <<call, other_vars>>

\* analyze: the try block returns the vote of _generate_vote_for_ticker.
ChipWarAnalyzeReturns ==
    /\ pc = "call"
    /\ call.fn = "ChipWarAgent.analyze"
    /\ call.ticker \in chip_tickers
    /\ ~call.simulator_fails
    /\ result' = GenerateVoteForTicker(call.ticker, call.report)
    /\ pc' = "done"
    /\ UNCHANGED <<call, other_vars>>

\* analyze: a statement of the try block raises.
ChipWarAnalyzeFallback ==
    /\ pc = "call"
    /\ call.fn = "ChipWarAgent.analyze"
    /\ call.ticker \in chip_tickers
    /\ call.simulator_fails
    /\ result' = ChipWarErrorVote
    /\ pc' = "done"
    /\ UNCHANGED <<call, other_vars>>

\* A direct call of _generate_vote_for_ticker.
CallGenerateVoteForTicker ==
    /\ pc = "call"
    /\ call.fn = "_generate_vote_for_ticker"
    /\ result' = GenerateVoteForTicker(call.ticker, call.report)
    /\ pc' = "done"
    /\ UNCHANGED <<call, other_vars>>

NextChipWar == ChipWarAnalyzeSkips \/ ChipWarAnalyzeReturns \/ ChipWarAnalyzeFallback

-----------------------------------------------------------------------------
(* RiskAgent._calculate_kelly_position.  win_rate is in percent, avg_win   *)
(* and avg_loss in tenths of a percent; every quotient is an exact         *)
(* rational [num, den] with den > 0.                                       *)

RECURSIVE Gcd(_, _)
Gcd(a, b) == IF b = 0 THEN a ELSE Gcd(b, a % b)

\* The fraction n / d in lowest terms, d # 0.
Rat(n, d) ==
    LET g == Gcd(Abs(n), Abs(d))
    IN IF d < 0 THEN [num |-> (-n) \div g, den |-> (-d) \div g]
       ELSE [num |-> n \div g, den |-> d \div g]

RatZero == [num |-> 0, den |-> 1]

RatQuarter == [num |-> 1, den |-> 4]

RatLess(a, b) == a.num * b.den < b.num * a.den

RatEq(a, b) == a.num * b.den = b.num * a.den

RatMin(a, b) == IF RatLess(b, a) THEN b ELSE a

RatMax(a, b) == IF RatLess(a, b) THEN b ELSE a

RatHalf(a) == Rat(a.num, 2 * a.den)

\* Variant of HalfKelly: the 25% cap is not applied.
HalfKellyUncapped(kelly_fraction) == RatMax(RatZero, RatHalf(kelly_fraction))

\* half_kelly = max(0, min(kelly_fraction * 0.5, 0.25))
HalfKelly(kelly_fraction) == RatMax(RatZero, RatMin(RatHalf(kelly_fraction), RatQuarter))

KellyZeros ==
    [kelly_fraction |-> RatZero, half_kelly |-> RatZero, recommended_pct |-> RatZero]

\* _calculate_kelly_position: b = avg_win / abs(avg_loss) and
\* kelly_fraction = (p * b - q) / b; the division by b = 0 raises
\* ZeroDivisionError, which the except clause turns into the zero result.
CalculateKellyPosition(win_rate, avg_win, avg_loss) ==
    IF win_rate <= 0 \/ win_rate >= 100 THEN KellyZeros
    ELSE IF avg_loss = 0 THEN KellyZeros
    ELSE LET b == Rat(avg_win, Abs(avg_loss))
             pb_minus_q == Rat(win_rate * b.num - (100 - win_rate) * b.den, 100 * b.den)
         IN IF b.num = 0 THEN KellyZeros
            ELSE LET kelly_fraction == Rat(pb_minus_q.num * b.den, pb_minus_q.den * b.num)
                     half_kelly == HalfKelly(kelly_fraction)
                 IN [kelly_fraction |-> kelly_fraction,
                     half_kelly |-> half_kelly,
                     recommended_pct |-> IF RatLess(kelly_fraction, RatZero) THEN RatZero
                                         ELSE IF RatEq(half_kelly, RatQuarter) THEN RatQuarter
                                         ELSE half_kelly]

KellyCalls ==
    {[fn |-> "_calculate_kelly_position", win_rate |-> w, avg_win |-> aw, avg_loss |-> al] :
        w \in {-10, 0, 30, 50, 60, 90, 100, 120},
        aw \in {-40, 0, 20, 80, 200},
        al \in {-40, 0, 40, 100}}

\* A direct call of _calculate_kelly_position.
CallCalculateKellyPosition ==
    /\ pc = "call"
    /\ call.fn = "_calculate_kelly_position"
    /\ result' = CalculateKellyPosition(call.win_rate, call.avg_win, call.avg_loss)
    /\ pc' = "done"
    /\ UNCHANGED <<call, other_vars>>

PegCalls ==
    {[fn |-> "_calculate_peg_ratio", pe_ratio |-> p, earnings_growth_rate |-> g] :
        p \in {50, 150, 250, 300, 600, 900}, g \in {-50, 0, 5, 10, 100, 200, 300, 400, 700}}

\* A direct call of _calculate_peg_ratio.
CallCalculatePegRatio ==
    /\ pc = "call"
    /\ call.fn = "_calculate_peg_ratio"
    /\ result' = CalculatePegRatio(call.pe_ratio, call.earnings_growth_rate)
    /\ pc' = "done"
    /\ UNCHANGED <<call, other_vars>>

-----------------------------------------------------------------------------
(* TraderAgent._find_support_resistance.  A bar is [high, low, close]; an  *)
(* absent value (None) is <<>> and a present one <<v>>.                     *)

\* sorted(set(levels), reverse=True)
RECURSIVE SortedDescending(_)
SortedDescending(S) ==
    IF S = {} THEN <<>>
    ELSE LET m == CHOOSE x \in S : \A y \in S : y <= x
         IN <<m>> \o SortedDescending(S \ {m})

\* seq[:n]
FirstN(seq, n) == SubSeq(seq, 1, Min(n, Len(seq)))

SeqRange(seq) == {seq[i] : i \in 1..Len(seq)}

\* for i in range(5, len(ohlcv_data) - 5), in the 1-based indices of a sequence
PivotIndices(ohlcv_data) == 6..(Len(ohlcv_data) - 5)

PivotWindow(i) == ((i - 5)..(i - 1)) \cup ((i + 1)..(i + 5))

\* all(highs[i] > h for h in left_highs) and all(... right_highs)
IsPivotHigh(ohlcv_data, i) ==
    \A k \in PivotWindow(i) : ohlcv_data[i].high > ohlcv_data[k].high

\* all(lows[i] < l for l in left_lows) and all(... right_lows)
IsPivotLow(ohlcv_data, i) ==
    \A k \in PivotWindow(i) : ohlcv_data[i].low < ohlcv_data[k].low

\* max(support_below) if support_below else None
NearestBelow(levels, current_price) ==
    LET below == {l \in SeqRange(levels) : l < current_price}
    IN IF below = {} THEN <<>> ELSE <<CHOOSE x \in below : \A y \in below : y <= x>>

\* min(resistance_above) if resistance_above else None
NearestAbove(levels, current_price) ==
    LET above == {l \in SeqRange(levels) : l > current_price}
    IN IF above = {} THEN <<>> ELSE <<CHOOSE x \in above : \A y \in above : x <= y>>

\* (distance / current_price * 100) if nearest else None: None also for a
\* nearest level of 0, which is falsy.
DistancePct(nearest, distance, current_price) ==
    IF nearest = <<>> \/ nearest = <<0>> THEN <<>>
    ELSE <<Rat(distance * 100, current_price)>>

NoSupportResistance ==
    [support_levels |-> <<>>, resistance_levels |-> <<>>,
     nearest_support |-> <<>>, nearest_resistance |-> <<>>,
     support_distance_pct |-> <<>>, resistance_distance_pct |-> <<>>]

\* _find_support_resistance
FindSupportResistance(ohlcv_data) ==
    IF Len(ohlcv_data) < 11 THEN NoSupportResistance
    ELSE LET pivots == PivotIndices(ohlcv_data)
             resistance_levels ==
                 FirstN(SortedDescending({ohlcv_data[i].high :
                            i \in {j \in pivots : IsPivotHigh(ohlcv_data, j)}}), 3)
             support_levels ==
                 FirstN(SortedDescending({ohlcv_data[i].low :
                            i \in {j \in pivots : IsPivotLow(ohlcv_data, j)}}), 3)
             current_price == ohlcv_data[Len(ohlcv_data)].close
             nearest_support == NearestBelow(support_levels, current_price)
             nearest_resistance == NearestAbove(resistance_levels, current_price)
         IN [support_levels |-> support_levels,
             resistance_levels |-> resistance_levels,
             nearest_support |-> nearest_support,
             nearest_resistance |-> nearest_resistance,
             support_distance_pct |->
                 IF nearest_support = <<>> THEN <<>>
                 ELSE DistancePct(nearest_support, current_price - nearest_support[1],
                                  current_price),
             resistance_distance_pct |->
                 IF nearest_resistance = <<>> THEN <<>>
                 ELSE DistancePct(nearest_resistance, nearest_resistance[1] - current_price,
                                  current_price)]

\* The bars at which the series below may have a pivot (1-based), six apart.
PivotSlots == <<6, 12, 18, 24>>

\* The height of the four possible pivots, oldest first: 0 is no pivot, rank
\* r a peak of 100 + 10 r (a trough of 90 - 10 r).
PivotProfiles ==
    {<<0, 0, 0, 0>>, <<4, 0, 0, 0>>, <<4, 3, 2, 1>>, <<1, 2, 3, 4>>,
     <<2, 2, 0, 0>>, <<1, 4, 1, 3>>, <<3, 1, 4, 2>>, <<0, 2, 0, 3>>}

SlotRank(profile, plateau, i) ==
    IF \E s \in 1..4 : PivotSlots[s] = i
    THEN profile[CHOOSE s \in 1..4 : PivotSlots[s] = i]
    ELSE IF plateau /\ i = PivotSlots[1] + 1 THEN profile[1]
    ELSE 0

\* n bars with highs of 100 and lows of 90 except at the slots; with plateau
\* the bar after the first slot repeats the first slot's high and low.
BarSeries(n, peaks, troughs, plateau, close) ==
    [i \in 1..n |-> [high |-> 100 + 10 * SlotRank(peaks, plateau, i),
                     low |-> 90 - 10 * SlotRank(troughs, plateau, i),
                     close |-> close]]

SupportResistanceCalls ==
    {[fn |-> "_find_support_resistance",
      ohlcv_data |-> BarSeries(n, peaks, troughs, plateau, close)] :
        n \in {10, 11, 17, 29}, peaks \in PivotProfiles, troughs \in PivotProfiles,
        plateau \in BOOLEAN, close \in {65, 70, 95, 120, 125}}

\* A direct call of _find_support_resistance.
CallFindSupportResistance ==
    /\ pc = "call"
    /\ call.fn = "_find_support_resistance"
    /\ result' = FindSupportResistance(call.ohlcv_data)
    /\ pc' = "done"
    /\ UNCHANGED <<call, other_vars>>

-----------------------------------------------------------------------------
(* The helper methods called directly *)

InitFunctions ==
    /\ pc = "call"
    /\ call \in PegCalls \cup DecideCalls \cup DetectCalls \cup KellyCalls
                \cup VoteForTickerCalls \cup ChipWarAnalyzeCalls
                \cup SupportResistanceCalls
    /\ result = NoResult
    /\ IdleOthers

NextFunctions ==
    \/ CallCalculatePegRatio
    \/ CallDecideAction
    \/ CallDetectRegulatoryLitigation
    \/ CallCalculateKellyPosition
    \/ CallGenerateVoteForTicker
    \/ NextChipWar
    \/ CallFindSupportResistance

SpecFunctions == InitFunctions /\ [][NextFunctions]_vars

-----------------------------------------------------------------------------
(* analyze of the seven scorers *)

InitScorers ==
    /\ pc = "call"
    /\ votes = <<>>
    /\ pm_decision = NoDecision
    /\ IdleDebate
    /\ risk_vote = [agent |-> "none"]
    /\ result = NoResult
    /\ IdleEffects
    /\ \/ risk_ctx \in RiskContexts /\ call = [fn |-> "RiskAgent.analyze"]
       \/ /\ risk_ctx = [has_data |-> FALSE]
          /\ call \in MacroAnalyzeCalls \cup AnalystAnalyzeCalls \cup TraderAnalyzeCalls
                      \cup SentimentAnalyzeCalls \cup NewsAnalyzeCalls
                      \cup ChipWarAnalyzeCalls

NextScorers ==
    \/ call.fn = "RiskAgent.analyze" /\ NextRisk
    \/ MacroAnalyzeReal \/ MacroAnalyzeFallback \/ MacroAnalyzeMock
    \/ NextAnalyst
    \/ NextTrader
    \/ NextSentiment
    \/ NextNews
    \/ NextChipWar

SpecScorers == InitScorers /\ [][NextScorers]_vars

\* The vote analyze returned: RiskAgent's is in risk_vote.
ScorerVote == IF call.fn = "RiskAgent.analyze" THEN risk_vote ELSE result

ScorersDone == pc = "done"

\* The computation inside analyze raised.
ScorerRaised ==
    \/ call.fn = "RiskAgent.analyze" /\ risk_ctx.has_data /\ ~risk_ctx.risk_data.numeric
    \/ /\ call.fn = "MacroAgent.analyze"
       /\ call.has_data
       /\ DollarBlockRaises(call.ticker, call.macro_data)
    \/ /\ call.fn = "AnalystAgent.analyze"
       /\ call.has_data
       /\ AnalystRaises(call.ticker, call.fundamental_data)
    \/ call.fn = "TraderAgent.analyze" /\ call.has_data /\ ~call.technical_data.numeric
    \/ call.fn = "SentimentAgent.analyze" /\ call.has_data /\ ~call.social_data.numeric
    \/ call.fn = "NewsAgent.analyze" /\ call.query_fails
    \/ /\ call.fn = "ChipWarAgent.analyze"
       /\ call.ticker \in chip_tickers
       /\ call.simulator_fails

\* C14: whenever the computation inside a scorer (Risk, Macro, Analyst,
\* Trader, Sentiment, News, Chip-War) raises, analyze returns a vote whose
\* action is HOLD and whose confidence is between 0.5 and 0.6.
C14_FallbackHoldBand ==
    (ScorersDone /\ ScorerRaised) =>
        /\ ScorerVote.action = "HOLD"
        /\ 50 <= ScorerVote.confidence
        /\ ScorerVote.confidence <= 60

RangeCheckedScorers ==
    {"RiskAgent.analyze", "MacroAgent.analyze", "AnalystAgent.analyze",
     "TraderAgent.analyze", "SentimentAgent.analyze"}

\* C15: every vote returned by analyze of the Risk, Macro, Analyst, Trader
\* and Sentiment agents, on the real-data, no-data and fallback paths, has a
\* confidence between 0.0 and 1.0 and an action among BUY, SELL and HOLD.
C15_VoteInRange ==
    (ScorersDone /\ call.fn \in RangeCheckedScorers) =>
        /\ ScorerVote.action \in {"BUY", "SELL", "HOLD"}
        /\ 0 <= ScorerVote.confidence
        /\ ScorerVote.confidence <= 100

\* TraderAgent on real data: signal confidence plus boosts exceed 1.0 and
\* the returned confidence is the 0.95 cap.
C15_Witness ==
    /\ ScorersDone
    /\ call.fn = "TraderAgent.analyze"
    /\ call.has_data
    /\ call.technical_data.numeric
    /\ TraderAnalyzeUncapped(call.technical_data).confidence > 100
    /\ result.action = "BUY"
    /\ result.confidence = 95

FunctionDone(fn) == pc = "done" /\ call.fn = fn

\* C16: every vote ChipWarAgent returns (for a non-semiconductor ticker, from
\* each per-ticker voting rule under every verdict and disruption score, and
\* on the error path) has a confidence between 0.0 and 1.0 and an action
\* among BUY, SELL and HOLD.
C16_ChipVoteInRange ==
    (FunctionDone("_generate_vote_for_ticker") \/ FunctionDone("ChipWarAgent.analyze")) =>
        /\ result.action \in {"BUY", "SELL", "HOLD"}
        /\ 0 <= result.confidence
        /\ result.confidence <= 100

\* The band of the PEG ratio pe / growth: below 0.5, 1.0, 1.5, 2.0, or above.
PegBand(pe_ratio, growth_pct) ==
    IF 2 * pe_ratio < growth_pct THEN "EXTREMELY_UNDERVALUED"
    ELSE IF pe_ratio < growth_pct THEN "UNDERVALUED"
    ELSE IF 2 * pe_ratio < 3 * growth_pct THEN "FAIR"
    ELSE IF pe_ratio < 2 * growth_pct THEN "SLIGHTLY_OVERVALUED"
    ELSE "OVERVALUED"

\* C17: _calculate_peg_ratio returns pe / (growth * 100) when growth% >= 1 and
\* classifies it by the bands <0.5, <1.0, <1.5 (fair), <2.0, else overvalued,
\* such that PEG(60, 0.40) = 1.5 is fair and PEG(25, 0.30) is undervalued; for
\* growth% < 1 it returns the sentinel 999 with classification N/A.
C17_PegBandsAndExamples ==
    FunctionDone("_calculate_peg_ratio") =>
        IF call.earnings_growth_rate < 10
        THEN result.peg_ratio = [num |-> 999, den |-> 1] /\ result.valuation = "N/A"
        ELSE /\ result.peg_ratio.num * call.earnings_growth_rate
                    = call.pe_ratio * result.peg_ratio.den
             /\ result.valuation = PegBand(call.pe_ratio, call.earnings_growth_rate)
             /\ (call.pe_ratio = 600 /\ call.earnings_growth_rate = 400)
                    => (2 * result.peg_ratio.num = 3 * result.peg_ratio.den
                        /\ result.valuation = "FAIR")
             /\ (call.pe_ratio = 250 /\ call.earnings_growth_rate = 300)
                    => result.valuation = "UNDERVALUED"

\* C18: in _decide_action the regulatory/litigation severity changes the
\* action only when it is CRITICAL, and then the action is SELL for every
\* score; for HIGH, MODERATE and LOW the action is the one computed for the
\* same score, trend and news counts with no regulatory risk.
C18_OnlyCriticalChangesAction ==
    FunctionDone("_decide_action") =>
        LET no_risk == DecideAction(call.score, call.emergency_count, call.trend,
                                    NoRegulatoryRisk)
        IN IF call.regulatory_analysis.has_risk
              /\ call.regulatory_analysis.severity = "CRITICAL"
           THEN result.action = "SELL"
           ELSE result.action = no_risk.action

\* C19: _detect_regulatory_litigation counts each news item at most once, so
\* litigation_count + regulatory_count never exceeds the number of news
\* items, and severity is CRITICAL exactly when that total is at least 5 or
\* litigation_count is at least 3.
C19_EachItemCountedOnce ==
    FunctionDone("_detect_regulatory_litigation") =>
        LET total_issues == result.litigation_count + result.regulatory_count
        IN /\ total_issues <= Len(call.news_summaries)
           /\ (result.severity = "CRITICAL")
                  <=> (total_issues >= 5 \/ result.litigation_count >= 3)

\* min(Kelly / 2, 0.25) for a Kelly fraction that is not negative.
HalfOfKellyCapped(kelly_fraction) == RatMin(RatHalf(kelly_fraction), RatQuarter)

\* The Kelly fraction (p * b - q) / b with b = avg_win / |avg_loss|, which is
\* (p * avg_win - q * |avg_loss|) / avg_win; p in percent.
KellyFraction(win_rate, avg_win, avg_loss) ==
    Rat(win_rate * avg_win - (100 - win_rate) * Abs(avg_loss), 100 * avg_win)

KellyDegenerate(win_rate, avg_win, avg_loss) ==
    win_rate <= 0 \/ win_rate >= 100 \/ avg_loss = 0 \/ avg_win = 0

\* C20: for all (win_rate, avg_win, avg_loss), _calculate_kelly_position
\* returns a recommended_pct in [0, 0.25]: 0 when the Kelly fraction
\* (p*b - q)/b is negative or the inputs are degenerate (win_rate outside
\* (0,1), avg_loss = 0, avg_win = 0), and min(Kelly/2, 0.25) otherwise.
C20_KellyRecommendation ==
    FunctionDone("_calculate_kelly_position") =>
        LET kelly == KellyFraction(call.win_rate, call.avg_win, call.avg_loss)
        IN /\ ~RatLess(result.recommended_pct, RatZero)
           /\ ~RatLess(RatQuarter, result.recommended_pct)
           /\ IF KellyDegenerate(call.win_rate, call.avg_win, call.avg_loss)
              THEN RatEq(result.recommended_pct, RatZero)
              ELSE IF RatLess(kelly, RatZero)
              THEN RatEq(result.recommended_pct, RatZero)
              ELSE RatEq(result.recommended_pct, HalfOfKellyCapped(kelly))

\* win_rate 0.9, avg_win 8%, avg_loss -4%: Kelly is 0.85, half of it is above
\* the cap and the recommendation is 0.25.
C20_Witness ==
    /\ FunctionDone("_calculate_kelly_position")
    /\ call.win_rate = 90 /\ call.avg_win = 80 /\ call.avg_loss = -40
    /\ RatEq(result.kelly_fraction, [num |-> 85, den |-> 100])
    /\ RatEq(result.recommended_pct, RatQuarter)

\* The pivot highs of the series in order of occurrence, up to bar i.
RECURSIVE PivotHighsUpTo(_, _)
PivotHighsUpTo(ohlcv_data, i) ==
    IF i < 6 THEN <<>>
    ELSE PivotHighsUpTo(ohlcv_data, i - 1)
         \o (IF IsPivotHigh(ohlcv_data, i) THEN <<ohlcv_data[i].high>> ELSE <<>>)

\* The pivot lows of the series in order of occurrence, up to bar i.
RECURSIVE PivotLowsUpTo(_, _)
PivotLowsUpTo(ohlcv_data, i) ==
    IF i < 6 THEN <<>>
    ELSE PivotLowsUpTo(ohlcv_data, i - 1)
         \o (IF IsPivotLow(ohlcv_data, i) THEN <<ohlcv_data[i].low>> ELSE <<>>)

\* The n most recent distinct values of a sequence, as a set.
RECURSIVE MostRecentDistinct(_, _)
MostRecentDistinct(levels, n) ==
    IF n = 0 \/ levels = <<>> THEN {}
    ELSE LET last == levels[Len(levels)]
             before == SelectSeq(SubSeq(levels, 1, Len(levels) - 1), LAMBDA l : l # last)
         IN {last} \cup MostRecentDistinct(before, n - 1)

\* C21: _find_support_resistance takes as pivots the bars strictly above
\* (below) each of the 5 bars on either side, keeps per side the 3 most
\* recent distinct pivot levels, reports as nearest support the highest kept
\* pivot low below the last close and as nearest resistance the lowest kept
\* pivot high above it, and with fewer than 11 bars returns empty levels and
\* None.
C21_RecentPivotsKept ==
    FunctionDone("_find_support_resistance") =>
        LET bars == call.ohlcv_data
            n == Len(bars)
        IN IF n < 11
           THEN /\ result.support_levels = <<>>
                /\ result.resistance_levels = <<>>
                /\ result.nearest_support = <<>>
                /\ result.nearest_resistance = <<>>
           ELSE LET kept_highs == MostRecentDistinct(PivotHighsUpTo(bars, n - 5), 3)
                    kept_lows == MostRecentDistinct(PivotLowsUpTo(bars, n - 5), 3)
                    below == {l \in kept_lows : l < bars[n].close}
                    above == {h \in kept_highs : h > bars[n].close}
                IN /\ SeqRange(result.resistance_levels) = kept_highs
                   /\ SeqRange(result.support_levels) = kept_lows
                   /\ result.nearest_support =
                          (IF below = {} THEN <<>>
                           ELSE <<CHOOSE x \in below : \A y \in below : y <= x>>)
                   /\ result.nearest_resistance =
                          (IF above = {} THEN <<>>
                           ELSE <<CHOOSE x \in above : \A y \in above : x <= y>>)

-----------------------------------------------------------------------------
(* analyze called twice with the same ticker and the same context *)

InitRepeat ==
    /\ pc = "call"
    /\ votes = <<>>
    /\ pm_decision = NoDecision
    /\ IdleDebate
    /\ risk_vote = [agent |-> "none"]
    /\ result = NoResult
    /\ IdleEffects
    /\ \/ risk_ctx \in RiskContexts /\ call = [fn |-> "RiskAgent.analyze"]
       \/ /\ risk_ctx = [has_data |-> FALSE]
          /\ call \in {c \in MacroAnalyzeCalls : ~c.has_data \/ c.ticker = "JPM"}
                      \cup AnalystAnalyzeCalls \cup SentimentAnalyzeCalls
                      \cup {c \in TraderAnalyzeCalls :
                                c.has_data => c.technical_data.mtf = <<>>}

\* The caller keeps the vote and calls analyze again with the same arguments.
AnalyzeAgain ==
    /\ pc = "done"
    /\ earlier = NoResult
    /\ earlier' = ScorerVote
    /\ result' = NoResult
    /\ risk_vote' = [agent |-> "none"]
    /\ pc' = "call"
    /\ UNCHANGED <<call, votes, pm_decision, next_agent, status, arb_calls, arb_pending,
                 risk_ctx, effects>>

NextRepeat ==
    \/ call.fn = "RiskAgent.analyze" /\ NextRisk
    \/ MacroAnalyzeReal \/ MacroAnalyzeFallback \/ MacroAnalyzeMock
    \/ NextAnalyst
    \/ NextTrader
    \/ NextSentiment
    \/ AnalyzeAgain

SpecRepeat == InitRepeat /\ [][NextRepeat]_vars

\* C22: for the Risk, Macro, Analyst, Trader and Sentiment agents two analyze
\* calls with the same ticker and the same context return the same action and
\* confidence, also when the context is absent or lacks the data key.
C22_SameInputsSameVote ==
    (pc = "done" /\ earlier # NoResult) =>
        /\ ScorerVote.action = earlier.action
        /\ ScorerVote.confidence = earlier.confidence

-----------------------------------------------------------------------------
(* run_war_room_debate and execute_kis_order.  The PM decision and the     *)
(* outcome of the constitutional validation, of the database and of the    *)
(* broker are inputs of the call; confidence is in percent.                *)

\* execute_kis_order: the broker calls it makes and whether it returns an
\* order.  broker is "ok", "unavailable" (no account, price, balance or a
\* quantity below 1: it returns None before any order) or "rejected" (the
\* order call returns nothing or raises).
ExecuteKisOrder(action, broker, has_position) ==
    IF action = "HOLD" THEN [orders |-> <<>>, placed |-> FALSE]
    ELSE IF broker = "unavailable" THEN [orders |-> <<>>, placed |-> FALSE]
    ELSE IF action = "BUY"
    THEN [orders |-> <<"buy_market_order">>, placed |-> broker = "ok"]
    ELSE IF action = "SELL"
    THEN IF ~has_position THEN [orders |-> <<>>, placed |-> FALSE]
         ELSE [orders |-> <<"sell_market_order">>, placed |-> broker = "ok"]
    ELSE [orders |-> <<>>, placed |-> FALSE]

\* A variant of SignalThresholdMet with the threshold at 0.5.
SignalThresholdLower(consensus_confidence) == consensus_confidence >= 50

\* if pm_decision["consensus_confidence"] >= 0.7
SignalThresholdMet(consensus_confidence) == consensus_confidence >= 70

DebateCalls ==
    [fn : {"run_war_room_debate"},
     execute_trade : BOOLEAN,
     is_valid : BOOLEAN,
     consensus_action : {"BUY", "SELL", "HOLD"},
     consensus_confidence : {0, 50, 69, 70, 71, 100},
     session_fails : BOOLEAN,
     signal_fails : BOOLEAN,
     broker : {"ok", "unavailable", "rejected"},
     has_position : BOOLEAN]

\* run_war_room_debate, steps 1-3: the debate, the validation and the saving
\* of the session and of the price tracking; an exception ends in HTTP 500.
DebateSaveSession ==
    /\ pc = "call"
    /\ call.fn \in {"run_war_room_debate", "debate_and_execute_trade"}
    /\ pc' = IF call.session_fails THEN "raised" ELSE "gate"
    /\ UNCHANGED <<call, result, other_vars>>

\* Step 4: if pm_decision["consensus_confidence"] >= 0.7 the signal is added
\* and committed.
DebateCreateSignal ==
    /\ pc = "gate"
    /\ SignalThresholdMet(call.consensus_confidence)
    /\ IF call.signal_fails
       THEN pc' = "raised" /\ UNCHANGED <<result, effects>>
       ELSE /\ effects' = Append(effects, "signal")
            /\ result' = [signal_id |-> <<1>>, order_id |-> <<>>]
            /\ pc' = IF call.execute_trade /\ call.is_valid THEN "order" ELSE "respond"
    /\ UNCHANGED <<call, votes, pm_decision, next_agent, status, arb_calls, arb_pending,
                 risk_ctx, risk_vote, earlier>>

\* Step 4 with a confidence below 0.7: signal_id and order_id stay None.
DebateSkipSignal ==
    /\ pc = "gate"
    /\ ~SignalThresholdMet(call.consensus_confidence)
    /\ result' = [signal_id |-> <<>>, order_id |-> <<>>]
    /\ pc' = "respond"
    /\ UNCHANGED <<call, other_vars>>

\* if execute_trade and is_valid: order_result = await execute_kis_order(...)
DebateExecuteOrder ==
    /\ pc = "order"
    /\ LET order == ExecuteKisOrder(call.consensus_action, call.broker, call.has_position)
       IN /\ effects' = effects \o <<"execute_kis_order">> \o order.orders
          /\ result' = [result EXCEPT !.order_id = IF order.placed THEN <<1>> ELSE <<>>]
    /\ pc' = "respond"
    /\ UNCHANGED <<call, votes, pm_decision, next_agent, status, arb_calls, arb_pending,
                 risk_ctx, risk_vote, earlier>>

\* Step 5: the DebateResponse is returned.
DebateRespond ==
    /\ pc = "respond"
    /\ pc' = IF call.fn = "debate_and_execute_trade" THEN "execute" ELSE "done"
    /\ UNCHANGED <<call, result, other_vars>>

-----------------------------------------------------------------------------
(* WarRoomExecutor *)

SignalAction == {"BUY", "SELL", "HOLD", "MAINTAIN", "REDUCE", "INCREASE", "DCA"}

\* _calculate_position_size: $100,000 of capital, 2% / 1% / 0.5% of it by
\* confidence, half of that for REDUCE, INCREASE and DCA, at $200 a share.
CalculatePositionSize(action, confidence) ==
    LET capital_ratio_bps == IF confidence >= 80 THEN 200
                             ELSE IF confidence >= 60 THEN 100 ELSE 50
        halves == IF action \in {"REDUCE", "INCREASE", "DCA"} THEN 1 ELSE 2
    IN (10 * capital_ratio_bps * halves) \div (2 * 200)

\* _send_order_to_broker: the broker call made and the status returned.
SendOrderToBroker(action, broker_raises) ==
    [orders |-> IF action = "BUY" THEN <<"buy_market_order">>
                ELSE <<"sell_market_order">>,
     status |-> IF broker_raises THEN "failed" ELSE "submitted"]

\* A variant of ExecuteWarRoomDecision that sends the order whenever a broker
\* is configured, whatever dry_run says.
ExecuteIgnoringDryRun(consensus_action, consensus_confidence, dry_run, has_broker, broker_raises) ==
    IF consensus_action \in {"HOLD", "MAINTAIN"}
    THEN [orders |-> <<>>, status |-> "skipped"]
    ELSE IF ~has_broker
    THEN [orders |-> <<>>, status |-> "dry_run"]
    ELSE SendOrderToBroker(consensus_action, broker_raises)

\* execute_war_room_decision
ExecuteWarRoomDecision(consensus_action, consensus_confidence, dry_run, has_broker, broker_raises) ==
    IF consensus_action \in {"HOLD", "MAINTAIN"}
    THEN [orders |-> <<>>, status |-> "skipped"]
    ELSE IF CalculatePositionSize(consensus_action, consensus_confidence) = 0
    THEN [orders |-> <<>>, status |-> "skipped"]
    ELSE IF dry_run \/ ~has_broker
    THEN [orders |-> <<>>, status |-> "dry_run"]
    ELSE SendOrderToBroker(consensus_action, broker_raises)

ExecutorCalls ==
    [fn : {"execute_war_room_decision"},
     consensus_action : SignalAction,
     consensus_confidence : {0, 59, 60, 80, 100},
     dry_run : BOOLEAN,
     has_broker : BOOLEAN,
     broker_raises : BOOLEAN]

\* A call of WarRoomExecutor.execute_war_room_decision.
CallExecuteWarRoomDecision ==
    /\ pc = "call"
    /\ call.fn = "execute_war_room_decision"
    /\ LET r == ExecuteWarRoomDecision(call.consensus_action, call.consensus_confidence,
                                       call.dry_run, call.has_broker, call.broker_raises)
       IN /\ effects' = effects \o r.orders
          /\ result' = [status |-> r.status]
    /\ pc' = "done"
    /\ UNCHANGED <<call, votes, pm_decision, next_agent, status, arb_calls, arb_pending,
                 risk_ctx, risk_vote, earlier>>

DebateAndExecuteCalls ==
    [fn : {"debate_and_execute_trade"},
     execute_trade : {FALSE},
     is_valid : BOOLEAN,
     consensus_action : {"BUY", "SELL", "HOLD"},
     consensus_confidence : {50, 70, 100},
     session_fails : BOOLEAN,
     signal_fails : {FALSE},
     broker : {"ok"},
     has_position : {TRUE},
     dry_run : BOOLEAN]

\* debate_and_execute_trade, step 2: WarRoomExecutor(kis_broker=None) executes
\* the consensus of the debate.
DebateAndExecute ==
    /\ pc = "execute"
    /\ LET r == ExecuteWarRoomDecision(call.consensus_action, call.consensus_confidence,
                                       call.dry_run, FALSE, FALSE)
       IN /\ effects' = effects \o r.orders
          /\ result' = [status |-> r.status]
    /\ pc' = "done"
    /\ UNCHANGED <<call, votes, pm_decision, next_agent, status, arb_calls, arb_pending,
                 risk_ctx, risk_vote, earlier>>

InitTrading ==
    /\ pc = "call"
    /\ call \in DebateCalls \cup ExecutorCalls \cup DebateAndExecuteCalls
    /\ result = NoResult
    /\ IdleOthers

NextDebateEndpoint ==
    \/ DebateSaveSession
    \/ DebateCreateSignal
    \/ DebateSkipSignal
    \/ DebateExecuteOrder
    \/ DebateRespond

NextTrading == NextDebateEndpoint \/ CallExecuteWarRoomDecision \/ DebateAndExecute

SpecTrading == InitTrading /\ [][NextTrading]_vars

\* The effects before position i of the list.
EffectsBefore(i) == {effects[j] : j \in 1..(i - 1)}

\* C23: run_war_room_debate creates a trading signal if and only if
\* consensus_confidence >= 0.7; execute_kis_order is invoked only after the
\* signal was created and only when execute_trade is true and the
\* constitutional validation passed; below 0.7 there is never a signal nor an
\* order.
C23_SignalGatesOrder ==
    call.fn = "run_war_room_debate" =>
        /\ pc \in {"order", "respond", "done"}
               => (("signal" \in SeqRange(effects)) <=> call.consensus_confidence >= 70)
        /\ \A i \in 1..Len(effects) :
               effects[i] = "execute_kis_order"
                   => /\ "signal" \in EffectsBefore(i)
                      /\ call.execute_trade
                      /\ call.is_valid
        /\ call.consensus_confidence < 70 => effects = <<>>

\* Confidence exactly 0.7 with execute_trade and a valid proposal: the signal
\* is created, then execute_kis_order places the buy order.
C23_Witness ==
    /\ call.fn = "run_war_room_debate"
    /\ pc = "done"
    /\ call.consensus_confidence = 70
    /\ call.execute_trade /\ call.is_valid
    /\ effects = <<"signal", "execute_kis_order", "buy_market_order">>
    /\ result.signal_id # <<>>
    /\ result.order_id # <<>>

BrokerOrders == {"buy_market_order", "sell_market_order"}

ExecutorDone == pc = "done" /\ call.fn = "execute_war_room_decision"

\* C24: execute_war_room_decision never calls the broker's buy_market_order
\* or sell_market_order when consensus_action is HOLD or MAINTAIN (status
\* skipped), when dry_run is True, or when no broker is configured (status
\* dry_run); an order is sent only when dry_run is False and a broker is
\* present.
C24_NoOrderUnlessLive ==
    /\ ExecutorDone =>
           /\ call.consensus_action \in {"HOLD", "MAINTAIN"}
                  => (effects = <<>> /\ result.status = "skipped")
           /\ (call.consensus_action \notin {"HOLD", "MAINTAIN"}
                   /\ (call.dry_run \/ ~call.has_broker))
                  => (effects = <<>> /\ result.status = "dry_run")
           /\ SeqRange(effects) \cap BrokerOrders # {}
                  => (~call.dry_run /\ call.has_broker)
    /\ (pc = "done" /\ call.fn = "debate_and_execute_trade")
           => SeqRange(effects) \cap BrokerOrders = {}

\* SELL at 0.8 with dry_run False and a broker: one sell order is sent.
C24_Witness ==
    /\ ExecutorDone
    /\ call.consensus_action = "SELL"
    /\ ~call.dry_run /\ call.has_broker /\ ~call.broker_raises
    /\ effects = <<"sell_market_order">>
    /\ result.status = "submitted"

\* C25: a buy-side decision (BUY, INCREASE or DCA) executed with dry_run
\* False never results in a call of broker.sell_market_order; sell orders are
\* sent only for the sell-side actions SELL and REDUCE.
C25_BuySideNeverSells ==
    ExecutorDone =>
        /\ (call.consensus_action \in {"BUY", "INCREASE", "DCA"} /\ ~call.dry_run)
               => "sell_market_order" \notin SeqRange(effects)
        /\ "sell_market_order" \in SeqRange(effects)
               => call.consensus_action \in {"SELL", "REDUCE"}

-----------------------------------------------------------------------------
(* The Sharpe and VaR rules of RiskAgent *)

\* The Sharpe rule (Sharpe below 0.5 on at least 20 returns) or the VaR rule
\* (one-day VaR below -5% on at least 30 returns) applies to the bundle.
SharpeOrVarRuleApplies(d) ==
    \/ HasSharpe(d) /\ d.returns.sharpe < 50
    \/ d.returns.n >= 30 /\ d.returns.var_1day < -5

\* C26: for a numeric risk bundle with no CRITICAL or HIGH CDS level to which
\* the Sharpe rule or the VaR rule applies, the vote is SELL for every
\* volatility, max_drawdown and beta in the bundle.
C26_SharpeVarSellSticks ==
    (RiskRealDone
        /\ ~CdsSuppresses(risk_ctx.risk_data)
        /\ SharpeOrVarRuleApplies(risk_ctx.risk_data))
        => risk_vote.action = "SELL"

-----------------------------------------------------------------------------
(* The confidence adjustments of MacroAgent *)

\* The confidence set by the Fed / GDP / CPI / unemployment rule of the
\* bundle, before any adjustment.
MacroBaseConfidence(d) == RegimeBlock(MacroStart, d).confidence

\* confidence_boost when the final adjustment is reached: the yield-curve,
\* oil and dollar adjustments, each added to it once.
MacroAccumulatedBoost(ticker, d) ==
    DollarBlock(OilBlock(YieldCurveBlock(MacroStart, d), ticker, d), ticker, d).boost

\* C27: when the yield curve is not inverted and _analyze_with_real_data
\* returns, the confidence of the vote is the rule's base confidence plus the
\* accumulated adjustments, each counted once, clamped to [0.40, 0.95].
C27_AdjustmentsCountedOnce ==
    (/\ MacroDone
     /\ call.has_data
     /\ YcSignal(call.macro_data) # "INVERTED"
     /\ ~DollarBlockRaises(call.ticker, call.macro_data))
        => result.confidence =
               Min(95, Max(40, MacroBaseConfidence(call.macro_data)
                               + MacroAccumulatedBoost(call.ticker, call.macro_data)))

-----------------------------------------------------------------------------
(* Peer comparison in AnalystAgent *)

\* One call of AnalystAgent.analyze.
InitAnalyst ==
    /\ pc = "call"
    /\ call \in AnalystAnalyzeCalls
    /\ result = NoResult
    /\ IdleOthers

SpecAnalyst == InitAnalyst /\ [][NextAnalyst]_vars

\* action and confidence after the PEG and fundamentals rules, before the
\* peer comparison.
AnalystCascade(d) == FundamentalsBlock(PegBlock(AnalystStart, d), d)

\* C28: for every numeric fundamental bundle whose peer-comparison position is
\* LAGGING, earnings_growth <= 0.01 included, the returned vote has the action
\* chosen by the PEG and fundamentals rules and is not the fallback HOLD.
C28_LaggingKeepsAction ==
    (/\ pc = "done"
     /\ call.fn = "AnalystAgent.analyze"
     /\ call.has_data
     /\ call.fundamental_data.numeric
     /\ CompetitivePosition(call.ticker, call.fundamental_data) = "LAGGING")
        => /\ result.action = AnalystCascade(call.fundamental_data).action
           /\ result # AnalystFallbackResponse

\* The adjustment the peer comparison adds to confidence_boost for the
\* cascade's action and the peer position.
PeerAdjustment(action, position) ==
    IF position = "LEADER" /\ action = "BUY" THEN 15
    ELSE IF position = "LAGGING" /\ action = "SELL" THEN 10
    ELSE IF position = "LAGGING" /\ action = "BUY" THEN -15
    ELSE 0

\* C29: when _analyze_with_real_data returns for a BUY with a LEADER position,
\* a SELL with a LAGGING position or a BUY with a LAGGING position, the
\* confidence of the vote is the confidence the same bundle gets with a
\* COMPETITIVE position (the cascade's) plus the peer adjustment (+0.15, +0.10,
\* -0.15), up to the cap 0.95.
C29_PeerAdjustmentApplied ==
    LET s == AnalystCascade(call.fundamental_data)
        position == CompetitivePosition(call.ticker, call.fundamental_data)
    IN (/\ pc = "done"
        /\ call.fn = "AnalystAgent.analyze"
        /\ call.has_data
        /\ ~AnalystRaises(call.ticker, call.fundamental_data)
        /\ PeerAdjustment(s.action, position) # 0)
           => result.confidence = Min(95, s.confidence + PeerAdjustment(s.action, position))

-----------------------------------------------------------------------------
(* The float arithmetic of _pm_arbitrate.  weight, confidence and the      *)
(* values of action_scores are Python floats (IEEE 754 binary64): every    *)
(* product, sum and quotient is the exact result rounded to a 53-bit       *)
(* significand, ties to even.  A natural number is a sequence of limbs,    *)
(* least significant first, without leading zero limbs; a float is         *)
(* [m, e] with value m * 2^e and m of exactly 53 bits, or FloatZero.       *)

LimbBits == 15

Base == 2 ^ LimbBits

\* The width of the significand of a float.
MantissaBits == 53

Limb(a, i) == IF i <= Len(a) THEN a[i] ELSE 0

RECURSIVE BigTrim(_)
BigTrim(a) ==
    IF a = <<>> \/ a[Len(a)] # 0 THEN a ELSE BigTrim(SubSeq(a, 1, Len(a) - 1))

\* a * d + carry for a limb d and a carry below Base.
RECURSIVE BigMulLimb(_, _, _, _)
BigMulLimb(a, d, i, carry) ==
    IF i > Len(a) THEN (IF carry = 0 THEN <<>> ELSE <<carry>>)
    ELSE LET t == a[i] * d + carry
         IN <<t % Base>> \o BigMulLimb(a, d, i + 1, t \div Base)

RECURSIVE BigAddFrom(_, _, _, _)
BigAddFrom(a, b, i, carry) ==
    IF i > Len(a) /\ i > Len(b) THEN (IF carry = 0 THEN <<>> ELSE <<carry>>)
    ELSE LET t == Limb(a, i) + Limb(b, i) + carry
         IN <<t % Base>> \o BigAddFrom(a, b, i + 1, t \div Base)

BigAdd(a, b) == BigAddFrom(a, b, 1, 0)

\* a - b for a >= b.
RECURSIVE BigSubFrom(_, _, _, _)
BigSubFrom(a, b, i, borrow) ==
    IF i > Len(a) THEN <<>>
    ELSE LET t == a[i] - Limb(b, i) - borrow
         IN <<(t + Base) % Base>> \o BigSubFrom(a, b, i + 1, IF t < 0 THEN 1 ELSE 0)

BigSub(a, b) == BigTrim(BigSubFrom(a, b, 1, 0))

\* -1, 0 or 1 as a is below, equal to or above b.
RECURSIVE BigCmpFrom(_, _, _)
BigCmpFrom(a, b, i) ==
    IF i = 0 THEN 0
    ELSE IF a[i] # b[i] THEN (IF a[i] < b[i] THEN -1 ELSE 1)
    ELSE BigCmpFrom(a, b, i - 1)

BigCmp(a, b) ==
    IF Len(a) # Len(b) THEN (IF Len(a) < Len(b) THEN -1 ELSE 1)
    ELSE BigCmpFrom(a, b, Len(a))

RECURSIVE BigMulFrom(_, _, _)
BigMulFrom(a, b, j) ==
    IF j > Len(b) THEN <<>>
    ELSE BigAdd(BigMulLimb(a, b[j], 1, 0), <<0>> \o BigMulFrom(a, b, j + 1))

BigMul(a, b) == BigTrim(BigMulFrom(a, b, 1))

\* The number of bits of a limb and of a natural number.
RECURSIVE LimbBitLen(_)
LimbBitLen(d) == IF d = 0 THEN 0 ELSE 1 + LimbBitLen(d \div 2)

BigBitLen(a) ==
    IF a = <<>> THEN 0 ELSE LimbBits * (Len(a) - 1) + LimbBitLen(a[Len(a)])

\* Bit i of a, bit 0 the least significant.
BigBit(a, i) == (Limb(a, (i \div LimbBits) + 1) \div (2 ^ (i % LimbBits))) % 2

\* a * 2^s
BigShl(a, s) ==
    IF a = <<>> THEN <<>>
    ELSE [i \in 1..(s \div LimbBits) |-> 0] \o BigMulLimb(a, 2 ^ (s % LimbBits), 1, 0)

\* The quotient of a by a limb d, from the top limb down; rem is the
\* remainder so far, below d.
RECURSIVE BigDivLimb(_, _, _, _)
BigDivLimb(a, d, i, rem) ==
    IF i = 0 THEN <<>>
    ELSE LET t == rem * Base + a[i]
         IN BigDivLimb(a, d, i - 1, t % d) \o <<t \div d>>

\* a \div 2^s
BigShr(a, s) ==
    IF Len(a) <= s \div LimbBits THEN <<>>
    ELSE LET high == SubSeq(a, (s \div LimbBits) + 1, Len(a))
         IN BigTrim(BigDivLimb(high, 2 ^ (s % LimbBits), Len(high), 0))

\* The largest limb x in lo..hi with d * x <= r, for d * lo <= r.
RECURSIVE QuotientLimb(_, _, _, _)
QuotientLimb(r, d, lo, hi) ==
    IF lo = hi THEN lo
    ELSE LET mid == (lo + hi + 1) \div 2
         IN IF BigCmp(BigMulLimb(d, mid, 1, 0), r) <= 0
            THEN QuotientLimb(r, d, mid, hi)
            ELSE QuotientLimb(r, d, lo, mid - 1)

\* Long division of n by d # 0, one limb of n at a time from the top; r is
\* the remainder so far, below d.
RECURSIVE BigDivModFrom(_, _, _, _)
BigDivModFrom(n, d, i, r) ==
    IF i = 0 THEN [q |-> <<>>, r |-> r]
    ELSE LET r1   == BigTrim(<<n[i]>> \o r)
             x    == QuotientLimb(r1, d, 0, Base - 1)
             rest == BigDivModFrom(n, d, i - 1, BigSub(r1, BigMulLimb(d, x, 1, 0)))
         IN [q |-> rest.q \o <<x>>, r |-> rest.r]

BigDivMod(n, d) ==
    LET qr == BigDivModFrom(n, d, Len(n), <<>>) IN [q |-> BigTrim(qr.q), r |-> qr.r]

FloatZero == [m |-> <<>>, e |-> 0]

\* The float nearest to m * 2^e, ties to the even significand.
FloatRound(m, e) ==
    LET len == BigBitLen(m)
    IN IF len = 0 THEN FloatZero
       ELSE IF len <= MantissaBits
       THEN [m |-> BigShl(m, MantissaBits - len), e |-> e - (MantissaBits - len)]
       ELSE LET s    == len - MantissaBits
                down == BigShr(m, s)
                half == BigCmp(BigSub(m, BigShl(down, s)), BigShl(<<1>>, s - 1))
                up   == half > 0 \/ (half = 0 /\ BigBit(down, 0) = 1)
                q    == IF up THEN BigAdd(down, <<1>>) ELSE down
            IN IF BigBitLen(q) > MantissaBits
               THEN [m |-> BigShr(q, 1), e |-> e + s + 1]
               ELSE [m |-> q, e |-> e + s]

\* x + y
FloatAdd(x, y) ==
    IF x = FloatZero THEN y
    ELSE IF y = FloatZero THEN x
    ELSE LET e == Min(x.e, y.e)
         IN FloatRound(BigAdd(BigShl(x.m, x.e - e), BigShl(y.m, y.e - e)), e)

\* x * y
FloatMul(x, y) ==
    IF x = FloatZero \/ y = FloatZero THEN FloatZero
    ELSE FloatRound(BigMul(x.m, y.m), x.e + y.e)

\* x / y for y # 0: the quotient to 56 or 57 bits with a last bit that tells
\* whether a remainder was left, rounded.
FloatDiv(x, y) ==
    IF x = FloatZero THEN FloatZero
    ELSE LET qr == BigDivMod(BigShl(x.m, MantissaBits + 2), y.m)
             sticky == IF qr.r = <<>> THEN 0 ELSE 1
         IN FloatRound(BigMulLimb(qr.q, 2, 1, sticky), x.e - y.e - (MantissaBits + 2) - 1)

\* x > y
FloatGreater(x, y) ==
    IF x = FloatZero THEN FALSE
    ELSE IF y = FloatZero THEN TRUE
    ELSE IF x.e # y.e THEN x.e > y.e
    ELSE BigCmp(x.m, y.m) > 0

\* The float of an integer below Base.
FloatOfInt(n) == FloatRound(IF n = 0 THEN <<>> ELSE <<n>>, 0)

\* The floats nearest to n / 100 for n in 0..100.
HundredthsFloats == [n \in 0..100 |-> FloatDiv(FloatOfInt(n), FloatOfInt(100))]

\* The float a decimal literal of n hundredths denotes (0.15 for 15).
FloatOfHundredths(n) == HundredthsFloats[n]

-----------------------------------------------------------------------------
(* _pm_arbitrate on floats, and the same votes in another order *)

\* self.vote_weights.get(agent, 0.1)
FloatWeight(agent) == FloatOfHundredths(Weight(agent))

FloatZeroScores == [BUY |-> FloatZero, SELL |-> FloatZero, HOLD |-> FloatZero]

\* action_scores[action] += weight * confidence
FloatTally(scores, vote) ==
    [scores EXCEPT ![Remap(vote.action)] =
        FloatAdd(@, FloatMul(FloatWeight(vote.agent), FloatOfHundredths(vote.confidence)))]

RECURSIVE FloatTallyAll(_, _)
FloatTallyAll(scores, vs) ==
    IF vs = <<>> THEN scores ELSE FloatTallyAll(FloatTally(scores, Head(vs)), Tail(vs))

\* max(action_scores, key=action_scores.get)
RECURSIVE FloatMaxKey(_, _, _)
FloatMaxKey(scores, best, i) ==
    IF i > Len(ScoreKeys) THEN best
    ELSE FloatMaxKey(scores,
                     IF FloatGreater(scores[ScoreKeys[i]], scores[best])
                     THEN ScoreKeys[i] ELSE best,
                     i + 1)

\* sum(action_scores.values()): the values added in key order.
FloatTotalScore(scores) ==
    FloatAdd(FloatAdd(FloatAdd(FloatZero, scores["BUY"]), scores["SELL"]), scores["HOLD"])

\* _pm_arbitrate with the scores, the comparison and the quotient in floats.
PmArbitrateFloat(vs) ==
    IF vs = <<>>
    THEN [consensus_action     |-> "HOLD",
          consensus_confidence |-> FloatOfHundredths(50),
          summary              |-> "no votes"]
    ELSE LET action_scores    == FloatTallyAll(FloatZeroScores, vs)
             consensus_action == FloatMaxKey(action_scores, ScoreKeys[1], 2)
             total_score      == FloatTotalScore(action_scores)
         IN [consensus_action     |-> consensus_action,
             consensus_confidence |->
                 IF FloatGreater(total_score, FloatZero)
                 THEN FloatDiv(action_scores[consensus_action], total_score)
                 ELSE FloatOfHundredths(50),
             summary              |-> "consensus",
             vote_distribution    |-> action_scores]

\* Vote lists in the order run_debate collects them (risk, macro,
\* institutional, trader, analyst), one vote per agent.
OrderedVoteLists ==
    {<<V("risk", x, 80), V("macro", "HOLD", c), V("institutional", "HOLD", 70),
       V("trader", "SELL", 80), V("analyst", "HOLD", 60)>> :
        x \in {"SELL", "BUY"}, c \in {50, 65}}
    \cup {<<V("risk", "BUY", 50), V("trader", "BUY", 50), V("analyst", "BUY", c)>> :
            c \in {50, 55}}

\* vs with its elements in the order p, a permutation of its indices.
Reordered(vs, p) == [i \in 1..Len(vs) |-> vs[p[i]]]

InitOrder ==
    /\ pc = "call"
    /\ votes \in OrderedVoteLists
    /\ pm_decision = NoDecision
    /\ call = [fn |-> "_pm_arbitrate"]
    /\ result = NoResult
    /\ IdleDebate
    /\ IdleRisk
    /\ IdleEffects

\* _pm_arbitrate(votes) on the list as collected.
ArbitrateInOrder ==
    /\ pc = "call"
    /\ pm_decision' = PmArbitrateFloat(votes)
    /\ pc' = "reorder"
    /\ UNCHANGED <<votes, next_agent, status, arb_calls, arb_pending, risk_ctx, risk_vote, call, result, earlier, effects>>

\* _pm_arbitrate on the same votes in any order.
ArbitrateReordered ==
    /\ pc = "reorder"
    /\ \E p \in Permutations(1..Len(votes)) :
          /\ votes' = Reordered(votes, p)
          /\ result' = PmArbitrateFloat(Reordered(votes, p))
    /\ pc' = "done"
    /\ UNCHANGED <<pm_decision, next_agent, status, arb_calls, arb_pending, risk_ctx, risk_vote, call, earlier, effects>>

NextOrder == ArbitrateInOrder \/ ArbitrateReordered

SpecOrder == InitOrder /\ [][NextOrder]_vars

\* C30: _pm_arbitrate returns the same score per action, the same consensus
\* action and the same consensus confidence for a vote list and for every
\* permutation of it.
C30_OrderIndependent ==
    (pc = "done" /\ call.fn = "_pm_arbitrate")
        => /\ result.vote_distribution = pm_decision.vote_distribution
           /\ result.consensus_action = pm_decision.consensus_action
           /\ result.consensus_confidence = pm_decision.consensus_confidence

====
